---------------------------- MODULE Spec2Model ----------------------------
(***************************************************************************)
(* Light Stack firmware (ESP32): the pattern player, the program selector, *)
(* the preset registry, the definition parser and the control loop that    *)
(* drives them, modelled from the firmware source.                         *)
(*                                                                         *)
(* The handlers are operators over a record M holding the firmware's       *)
(* globals; `t` is the value millis() returns while the handler runs.     *)
(* `log` is the trace of the last handler: pin writes, broker publishes,   *)
(* serial diagnostics and player events, in program order; `call` names    *)
(* the last step and its arguments; played[p] counts the frame advances of *)
(* program p's player since its last init; `pending` holds from the install *)
(* of a user Pattern until that Pattern's Frame 0 is a lamp output;         *)
(* `attemptedAt` is the time of the last connection attempt, -1 before the  *)
(* first.  An "advance" and an "expire" event end with the time by which    *)
(* the tick came after the duration.                                        *)
(***************************************************************************)
EXTENDS Integers, Sequences, FiniteSets, TLC

VARIABLES currentProgram, currentUserPattern, state, lights, connected,
          wifiFeaturesEnabled, lastReconnectAttempt, now, pc, log, call,
          played, pending, attemptedAt, events

vars == <<currentProgram, currentUserPattern, state, lights, connected,
          wifiFeaturesEnabled, lastReconnectAttempt, now, pc, log, call,
          played, pending, attemptedAt, events>>

(***************************************************************************)
(* Bounds of the model.  The millisecond clock and every `unsigned long`   *)
(* are ClockBits wide (32 on the device).  In a behaviour of Spec the       *)
(* environment acts (the clock moves on, a command arrives, the button is  *)
(* pressed, the connection or the configuration changes) at most MaxEvents *)
(* times.                                                                  *)
(***************************************************************************)
ClockBits == 12

MaxEvents == 4

\* The most clock advances and direct calls in a behaviour of SpecCalls.
MaxCalls == 3

ClockMod == 2 ^ ClockBits

ULONG_MAX == ClockMod - 1

\* The amounts of time (ms) that pass between two reads of millis().
ClockSteps == {1, 200, 3001}

(***************************************************************************)
(* Configuration                                                           *)
(***************************************************************************)
PATTERN_FRAME_MAX == 32

MQTT_RECONNECT_DELAY == 3000

PROGRAM_OFF == 0

PROGRAM_WIFI_CONNECTING == 1

PROGRAM_WIFI_HOTSPOT == 2

PROGRAM_WIFI_ERROR == 3

PROGRAM_MQTT_CONNECTING == 4

PROGRAM_MQTT_ERROR == 5

PROGRAM_USER == 6

PROGRAM_COUNT == 7

PRESET_OFF == 0

PRESET_COUNT == 10

Programs == 0 .. (PROGRAM_COUNT - 1)

programNames ==
  <<"off", "wifi-connecting", "wifi-hotspot", "wifi-error",
    "mqtt-connecting", "mqtt-error", "user">>

(***************************************************************************)
(* Data structures                                                         *)
(***************************************************************************)
pattern_frame(r, a, g, d) ==
  [red_state |-> r, amber_state |-> a, green_state |-> g, delay_ms |-> d]

\* frames holds the num_frames slots that were written; frames[i + 1] is
\* the source's frames[i].
stack_pattern(fs, d, n) ==
  [frames |-> fs, num_frames |-> Len(fs), delay_ms |-> d, next_preset |-> n]

stack_state(i, f, p) ==
  [current_frame |-> i, last_frame_at |-> f, pattern_start_at |-> p]

\* The registry with a green preset that lasts 200 ms and is followed by off.
presetList_TimedGreen ==
  << stack_pattern(<<pattern_frame(FALSE, FALSE, FALSE, ULONG_MAX)>>, ULONG_MAX, 0),
     stack_pattern(<<pattern_frame(FALSE, FALSE, TRUE, ULONG_MAX)>>, 200, 0),
     stack_pattern(<<pattern_frame(FALSE, FALSE, TRUE, 1000),
                     pattern_frame(FALSE, FALSE, FALSE, 1000)>>, ULONG_MAX, 0),
     stack_pattern(<<pattern_frame(FALSE, TRUE, FALSE, ULONG_MAX)>>, ULONG_MAX, 0),
     stack_pattern(<<pattern_frame(FALSE, TRUE, FALSE, 1000),
                     pattern_frame(FALSE, FALSE, FALSE, 1000)>>, ULONG_MAX, 0),
     stack_pattern(<<pattern_frame(TRUE, FALSE, FALSE, ULONG_MAX)>>, ULONG_MAX, 0),
     stack_pattern(<<pattern_frame(TRUE, FALSE, FALSE, 1000),
                     pattern_frame(FALSE, FALSE, FALSE, 1000)>>, ULONG_MAX, 0),
     stack_pattern(<<pattern_frame(TRUE, FALSE, FALSE, 350),
                     pattern_frame(FALSE, TRUE, FALSE, 350),
                     pattern_frame(FALSE, FALSE, TRUE, 350)>>, ULONG_MAX, 0),
     stack_pattern(<<pattern_frame(TRUE, FALSE, FALSE, 200),
                     pattern_frame(FALSE, TRUE, FALSE, 200),
                     pattern_frame(FALSE, FALSE, TRUE, 200),
                     pattern_frame(FALSE, TRUE, FALSE, 200)>>, ULONG_MAX, 0),
     stack_pattern(<<pattern_frame(TRUE, TRUE, TRUE, ULONG_MAX)>>, ULONG_MAX, 0) >>

presetList ==
  << stack_pattern(<<pattern_frame(FALSE, FALSE, FALSE, ULONG_MAX)>>, ULONG_MAX, 0),
     stack_pattern(<<pattern_frame(FALSE, FALSE, TRUE, ULONG_MAX)>>, ULONG_MAX, 0),
     stack_pattern(<<pattern_frame(FALSE, FALSE, TRUE, 1000),
                     pattern_frame(FALSE, FALSE, FALSE, 1000)>>, ULONG_MAX, 0),
     stack_pattern(<<pattern_frame(FALSE, TRUE, FALSE, ULONG_MAX)>>, ULONG_MAX, 0),
     stack_pattern(<<pattern_frame(FALSE, TRUE, FALSE, 1000),
                     pattern_frame(FALSE, FALSE, FALSE, 1000)>>, ULONG_MAX, 0),
     stack_pattern(<<pattern_frame(TRUE, FALSE, FALSE, ULONG_MAX)>>, ULONG_MAX, 0),
     stack_pattern(<<pattern_frame(TRUE, FALSE, FALSE, 1000),
                     pattern_frame(FALSE, FALSE, FALSE, 1000)>>, ULONG_MAX, 0),
     stack_pattern(<<pattern_frame(TRUE, FALSE, FALSE, 350),
                     pattern_frame(FALSE, TRUE, FALSE, 350),
                     pattern_frame(FALSE, FALSE, TRUE, 350)>>, ULONG_MAX, 0),
     stack_pattern(<<pattern_frame(TRUE, FALSE, FALSE, 200),
                     pattern_frame(FALSE, TRUE, FALSE, 200),
                     pattern_frame(FALSE, FALSE, TRUE, 200),
                     pattern_frame(FALSE, TRUE, FALSE, 200)>>, ULONG_MAX, 0),
     stack_pattern(<<pattern_frame(TRUE, TRUE, TRUE, ULONG_MAX)>>, ULONG_MAX, 0) >>

presetNames ==
  <<"off", "green", "green-blink", "amber", "amber-blink",
    "red", "red-blink", "chase", "cylon", "all">>

\* The Pattern each status program plays (the const local of programOff ..
\* programMqttError), indexed by program id + 1.
programPatterns ==
  << stack_pattern(<<pattern_frame(FALSE, FALSE, FALSE, ULONG_MAX)>>, ULONG_MAX, 0),
     stack_pattern(<<pattern_frame(TRUE, FALSE, FALSE, 350),
                     pattern_frame(FALSE, TRUE, FALSE, 350),
                     pattern_frame(FALSE, FALSE, TRUE, 350)>>, ULONG_MAX, 0),
     stack_pattern(<<pattern_frame(FALSE, TRUE, FALSE, 350),
                     pattern_frame(FALSE, FALSE, TRUE, 350)>>, ULONG_MAX, 0),
     stack_pattern(<<pattern_frame(TRUE, TRUE, TRUE, 200),
                     pattern_frame(FALSE, TRUE, TRUE, 200)>>, ULONG_MAX, 0),
     stack_pattern(<<pattern_frame(FALSE, TRUE, TRUE, 500),
                     pattern_frame(FALSE, TRUE, FALSE, 500)>>, ULONG_MAX, 0),
     stack_pattern(<<pattern_frame(TRUE, TRUE, FALSE, 200),
                     pattern_frame(FALSE, TRUE, FALSE, 200)>>, ULONG_MAX, 0) >>

\* The Pattern program p plays in M: programUser plays currentUserPattern.
programPattern(M, p) ==
  IF p = PROGRAM_USER THEN M.currentUserPattern ELSE programPatterns[p + 1]

\* The three pin levels setLights writes for a frame.
Lamps(frame) ==
  [red |-> frame.red_state, amber |-> frame.amber_state, green |-> frame.green_state]

\* A subtraction that does not wrap: 0 once the counter has passed its
\* maximum and is below the timestamp.
Elapsed_Saturating(a, b) == IF a >= b THEN a - b ELSE 0

\* Unsigned subtraction a - b of two `unsigned long` values.
Elapsed(a, b) == (a - b + ClockMod) % ClockMod


(***************************************************************************)
(* The firmware's globals as one record, and the handlers over it.         *)
(***************************************************************************)
Machine ==
  [currentProgram |-> currentProgram, currentUserPattern |-> currentUserPattern,
   state |-> state, lights |-> lights, connected |-> connected,
   wifiFeaturesEnabled |-> wifiFeaturesEnabled,
   lastReconnectAttempt |-> lastReconnectAttempt, played |-> played,
   pending |-> pending, attemptedAt |-> attemptedAt, log |-> <<>>]

Logged(M, e) == [M EXCEPT !.log = Append(@, e)]

\* mqttClient.publish: the message leaves the device only while the client
\* is connected to the broker; a call made while it is not is dropped.
publish(M, topic, payload) ==
  Logged(M, <<IF M.connected THEN "publish" ELSE "dropped", topic, payload>>)

\* A setLights that writes the pins and sends nothing.
setLights_Silent(M, frame) ==
  Logged([M EXCEPT !.lights = Lamps(frame)], <<"lights", Lamps(frame)>>)

\* The three digitalWrite calls, then the `state` notification.
setLights(M, frame) ==
  publish(Logged([M EXCEPT !.lights = Lamps(frame)], <<"lights", Lamps(frame)>>),
          "state", Lamps(frame))

isValidProgramId(program) == program >= 0 /\ program < PROGRAM_COUNT

isValidPresetId(preset) == preset >= 0 /\ preset < PRESET_COUNT

RECURSIVE getPresetIdFrom(_, _)
getPresetIdFrom(presetName, preset) ==
  IF preset >= PRESET_COUNT THEN -1
  ELSE IF presetName = presetNames[preset + 1] THEN preset
  ELSE getPresetIdFrom(presetName, preset + 1)

\* A lookup that answers the first id for a name the registry lacks.
getPresetId_FirstOnMiss(presetName) ==
  IF getPresetIdFrom(presetName, 0) < 0 THEN 0 ELSE getPresetIdFrom(presetName, 0)

\* A lookup whose loop stops one entry short of the registry's end.
getPresetId_SkipsLast(presetName) ==
  IF presetName = presetNames[PRESET_COUNT] THEN -1
  ELSE getPresetIdFrom(presetName, 0)

getPresetId(presetName) == getPresetIdFrom(presetName, 0)

\* An encoding that writes every delay, the sentinel too.
EncodePattern_EmitsSentinel(pattern) ==
  [frames |-> [i \in 1 .. pattern.num_frames |->
                 [red |-> pattern.frames[i].red_state,
                  amber |-> pattern.frames[i].amber_state,
                  green |-> pattern.frames[i].green_state,
                  has_delay |-> TRUE,
                  delay |-> pattern.frames[i].delay_ms]],
   has_delay |-> TRUE,
   delay |-> pattern.delay_ms,
   has_next_preset |-> TRUE,
   next_preset |-> presetNames[pattern.next_preset + 1]]

\* The JSON document setPattern serialises for the `pattern` topic.
EncodePattern(pattern) ==
  [frames |-> [i \in 1 .. pattern.num_frames |->
                 [red |-> pattern.frames[i].red_state,
                  amber |-> pattern.frames[i].amber_state,
                  green |-> pattern.frames[i].green_state,
                  has_delay |-> pattern.frames[i].delay_ms # ULONG_MAX,
                  delay |-> IF pattern.frames[i].delay_ms # ULONG_MAX
                            THEN pattern.frames[i].delay_ms ELSE 0]],
   has_delay |-> pattern.delay_ms # ULONG_MAX,
   delay |-> IF pattern.delay_ms # ULONG_MAX THEN pattern.delay_ms ELSE 0,
   has_next_preset |-> pattern.delay_ms # ULONG_MAX,
   next_preset |-> IF pattern.delay_ms # ULONG_MAX
                   THEN presetNames[pattern.next_preset + 1] ELSE ""]

RECURSIVE runPattern(_, _, _, _, _)

\* A loopDisplay that runs programUser whatever program is current.
loopDisplay_AlwaysUser(M, t, init) ==
  runPattern(M, PROGRAM_USER, M.currentUserPattern, t, init)

\* (*renderFunc[currentProgram])(init): the current program's function runs
\* its Pattern against its own static stack_state.
loopDisplay(M, t, init) ==
  runPattern(M, M.currentProgram, programPattern(M, M.currentProgram), t, init)

\* setProgram without the test against the current program.
setProgram_NoCurrentTest(M, program, t) ==
  IF isValidProgramId(program)
  THEN publish(loopDisplay(Logged([M EXCEPT !.currentProgram = program],
                                   <<"program", program>>), t, TRUE),
               "program", programNames[program + 1])
  ELSE M

\* setProgram that switches without the init tick.
setProgram_NoInit(M, program, t) ==
  IF isValidProgramId(program) /\ program # M.currentProgram
  THEN publish(loopDisplay(Logged([M EXCEPT !.currentProgram = program],
                                   <<"program", program>>), t, FALSE),
               "program", programNames[program + 1])
  ELSE M

setProgram(M, program, t) ==
  IF isValidProgramId(program) /\ program # M.currentProgram
  THEN publish(loopDisplay(Logged([M EXCEPT !.currentProgram = program],
                                   <<"program", program>>), t, TRUE),
               "program", programNames[program + 1])
  ELSE M

\* An install that does not init-tick the player.
setPattern_NoInit(M, pattern, t) ==
  publish(Logged([M EXCEPT !.currentUserPattern = pattern, !.pending = TRUE],
                 <<"install", pattern>>),
          "pattern", EncodePattern(pattern))

setPattern(M, pattern, t) ==
  publish(loopDisplay(Logged([M EXCEPT !.currentUserPattern = pattern,
                                       !.pending = TRUE],
                             <<"install", pattern>>), t, TRUE),
          "pattern", EncodePattern(pattern))

\* A setPreset that reads the registry one entry too far.
setPreset_NextEntry(M, preset, t) ==
  IF isValidPresetId(preset)
  THEN setPattern(M, presetList[((preset + 1) % PRESET_COUNT) + 1], t) ELSE M

\* setPreset(uint8_t preset)
setPreset(M, preset, t) ==
  IF isValidPresetId(preset) THEN setPattern(M, presetList[preset + 1], t) ELSE M

\* setPreset(String presetName)
setPresetName(M, presetName, t) ==
  IF getPresetId(presetName) >= 0 THEN setPreset(M, getPresetId(presetName), t) ELSE M

\* The count of frame advances kept in `played` stops at MaxPlayed, which no
\* run of a bounded number of events reaches.
MaxPlayed == MaxEvents

\* Time by which a tick at t comes after a duration that began at `since`.
Late(t, since, duration) == Elapsed(t, since) - duration

\* A frame advance that stays on the last frame in place of wrapping to 0.
advanceFrame_NoWrap(M, program, pattern, t) ==
  LET incremented == (M.state[program].current_frame + 1) % 256
      next == IF incremented >= pattern.num_frames
              THEN M.state[program].current_frame ELSE incremented
      st == M.state[program]
      M1 == [M EXCEPT !.state[program].current_frame = next,
                      !.state[program].last_frame_at = t,
                      !.played[program] = IF @ < MaxPlayed THEN @ + 1 ELSE @]
  IN setLights(Logged(M1, <<"advance", program, next, t,
                            Late(t, st.last_frame_at,
                                 pattern.frames[st.current_frame + 1].delay_ms)>>),
               pattern.frames[next + 1])

\* The frame-advance branch of runPattern: current_frame is a uint8_t.
advanceFrame(M, program, pattern, t) ==
  LET incremented == (M.state[program].current_frame + 1) % 256
      next == IF incremented >= pattern.num_frames THEN 0 ELSE incremented
      st == M.state[program]
      M1 == [M EXCEPT !.state[program].current_frame = next,
                      !.state[program].last_frame_at = t,
                      !.played[program] = IF @ < MaxPlayed THEN @ + 1 ELSE @]
  IN setLights(Logged(M1, <<"advance", program, next, t,
                            Late(t, st.last_frame_at,
                                 pattern.frames[st.current_frame + 1].delay_ms)>>),
               pattern.frames[next + 1])

\* The frame test with `>=` in place of `>`.
frameElapsed_AtLeast(pattern, st, t) ==
  LET frameDelay == pattern.frames[st.current_frame + 1].delay_ms
  IN frameDelay # ULONG_MAX /\ Elapsed(t, st.last_frame_at) >= frameDelay

\* The frame test on a delay held in a signed long, where the sentinel
\* reads as -1, and without the test for the sentinel.
frameElapsed_SignedDelay(pattern, st, t) ==
  LET frameDelay == pattern.frames[st.current_frame + 1].delay_ms
      signedDelay == IF frameDelay >= ClockMod \div 2 THEN frameDelay - ClockMod
                     ELSE frameDelay
  IN Elapsed(t, st.last_frame_at) > signedDelay

frameElapsed(pattern, st, t) ==
  LET frameDelay == pattern.frames[st.current_frame + 1].delay_ms
  IN frameDelay # ULONG_MAX /\ Elapsed(t, st.last_frame_at) > frameDelay

\* A Pattern test that holds only on the tick that falls on the deadline.
patternElapsed_AtDeadline(pattern, st, t) ==
  pattern.delay_ms # ULONG_MAX /\ Elapsed(t, st.pattern_start_at) = pattern.delay_ms

patternElapsed(pattern, st, t) ==
  pattern.delay_ms # ULONG_MAX /\ Elapsed(t, st.pattern_start_at) > pattern.delay_ms

\* An init that restarts the clocks but not the frame index.
runPatternInit_KeepsIndex(M, program, pattern, t) ==
  setLights(Logged([M EXCEPT !.state[program] =
                               stack_state(M.state[program].current_frame, t, t),
                             !.played[program] = 0,
                             !.pending = IF program = PROGRAM_USER THEN FALSE ELSE @],
                   <<"init", program, t>>),
            pattern.frames[1])

\* An init that restarts the frame but keeps the Pattern's start time.
runPatternInit_KeepsStart(M, program, pattern, t) ==
  setLights(Logged([M EXCEPT !.state[program] =
                               stack_state(0, t, M.state[program].pattern_start_at),
                             !.played[program] = 0,
                             !.pending = IF program = PROGRAM_USER THEN FALSE ELSE @],
                   <<"init", program, t>>),
            pattern.frames[1])

runPatternInit(M, program, pattern, t) ==
  setLights(Logged([M EXCEPT !.state[program] = stack_state(0, t, t),
                             !.played[program] = 0,
                             !.pending = IF program = PROGRAM_USER THEN FALSE ELSE @],
                   <<"init", program, t>>),
            pattern.frames[1])

\* An expiry that hands the stored successor to setPreset as it is.
expirePattern_NoFallback(M, program, pattern, t) ==
  setPreset(Logged(M, <<"expire", program, pattern.next_preset, t,
                        Late(t, M.state[program].pattern_start_at, pattern.delay_ms)>>),
            pattern.next_preset, t)

\* An expiry that runs its branch a second time after the install returns.
expirePattern_Twice(M, program, pattern, t) ==
  LET successor == IF isValidPresetId(pattern.next_preset)
                   THEN pattern.next_preset ELSE PRESET_OFF
      M1 == setPreset(Logged(M, <<"expire", program, pattern.next_preset, t,
                                  Late(t, M.state[program].pattern_start_at,
                                       pattern.delay_ms)>>),
                      successor, t)
  IN setPreset(Logged(M1, <<"expire", program, pattern.next_preset, t,
                            Late(t, M1.state[program].pattern_start_at,
                                 pattern.delay_ms)>>),
               successor, t)

\* The expiry branch of runPattern.
expirePattern(M, program, pattern, t) ==
  setPreset(Logged(M, <<"expire", program, pattern.next_preset, t,
                        Late(t, M.state[program].pattern_start_at, pattern.delay_ms)>>),
            IF isValidPresetId(pattern.next_preset)
            THEN pattern.next_preset ELSE PRESET_OFF, t)

\* A player that looks at the Pattern's duration only on a frame advance.
runPattern_ExpiryOnAdvance(M, program, pattern, t, init) ==
  IF init THEN runPatternInit(M, program, pattern, t)
  ELSE
    IF frameElapsed(pattern, M.state[program], t)
    THEN LET M1 == advanceFrame(M, program, pattern, t)
         IN IF patternElapsed(pattern, M1.state[program], t)
            THEN expirePattern(M1, program, pattern, t)
            ELSE M1
    ELSE M

\* A player that looks at the Pattern's duration before the frame's, and
\* leaves the frame alone on the tick that expires the Pattern.
runPattern_ExpiryFirst(M, program, pattern, t, init) ==
  IF init THEN runPatternInit(M, program, pattern, t)
  ELSE
    IF patternElapsed(pattern, M.state[program], t)
    THEN expirePattern(M, program, pattern, t)
    ELSE IF frameElapsed(pattern, M.state[program], t)
         THEN advanceFrame(M, program, pattern, t) ELSE M

runPattern(M, program, pattern, t, init) ==
  IF init THEN runPatternInit(M, program, pattern, t)
  ELSE
    LET M1 == IF frameElapsed(pattern, M.state[program], t)
              THEN advanceFrame(M, program, pattern, t) ELSE M
    IN IF patternElapsed(pattern, M1.state[program], t)
       THEN expirePattern(M1, program, pattern, t)
       ELSE M1

(***************************************************************************)
(* Definitions: the parsed JSON document of a `definition` command.        *)
(* has_x tells whether the document holds key x (containsKey).             *)
(***************************************************************************)
JsonFrame(r, a, g, hd, d) ==
  [red |-> r, amber |-> a, green |-> g, has_delay |-> hd, delay |-> d]

JsonDefinition(hf, fs, hd, d, hn, n) ==
  [parse_ok |-> TRUE, has_frames |-> hf, frames |-> fs, has_delay |-> hd,
   delay |-> d, has_next_preset |-> hn, next_preset |-> n]

\* A document deserializeJson fails on.
JsonUnparsable ==
  [parse_ok |-> FALSE, has_frames |-> FALSE, frames |-> <<>>, has_delay |-> FALSE,
   delay |-> 0, has_next_preset |-> FALSE, next_preset |-> ""]

\* The value an `unsigned long` takes when assigned from a JSON integer:
\* ArduinoJson yields 0 for a value the target type cannot hold.
JsonAsULong(v) == IF v < 0 \/ v > ULONG_MAX THEN 0 ELSE v

\* A frame loop body that stores amber and green in each other's member.
frameOfJson_SwapsLamps(frame) ==
  pattern_frame(frame.red, frame.green, frame.amber,
                IF ~frame.has_delay \/ frame.delay = -1 THEN ULONG_MAX
                ELSE JsonAsULong(frame.delay))

\* The body of the frame loop for the frame the iterator is on.
frameOfJson(frame) ==
  pattern_frame(frame.red, frame.amber, frame.green,
                IF ~frame.has_delay \/ frame.delay = -1 THEN ULONG_MAX
                ELSE JsonAsULong(frame.delay))

\* A frame loop without the capacity test: it keeps every frame it is given.
parseFrames_NoCapacity(M, frames, index, written) ==
  [M |-> M, frames |-> [i \in 1 .. Len(frames) |-> frameOfJson(frames[i])],
   index |-> Len(frames), cancelled |-> FALSE]

\* A frame loop that stops at the capacity and keeps the frames it has.
parseFrames_Truncates(M, frames, index, written) ==
  LET kept == IF Len(frames) > PATTERN_FRAME_MAX THEN PATTERN_FRAME_MAX
              ELSE Len(frames)
  IN [M |-> M, frames |-> [i \in 1 .. kept |-> frameOfJson(frames[i])],
      index |-> kept, cancelled |-> FALSE]

\* The frame loop of setDefinition from slot `index` on.  `written` are the
\* slots 0 .. 31 of the local pattern filled so far.  A store at a slot
\* >= PATTERN_FRAME_MAX is out of the array's bounds: it falls on the members
\* that follow `frames` in the local stack_pattern, which the cancel path
\* never reads; the log keeps the event.
RECURSIVE parseFrames(_, _, _, _)
parseFrames(M, frames, index, written) ==
  IF index >= Len(frames)
  THEN [M |-> M, frames |-> written, index |-> index, cancelled |-> FALSE]
  ELSE
    LET inBounds == index < PATTERN_FRAME_MAX
        M1 == IF inBounds THEN M ELSE Logged(M, <<"oob", index>>)
        written1 == IF inBounds THEN Append(written, frameOfJson(frames[index + 1]))
                    ELSE written
        index1 == (index + 1) % 256
    IN IF index1 > PATTERN_FRAME_MAX
       THEN [M |-> Logged(M1, <<"serial", "Too many pattern frames! Cancelling.">>),
             frames |-> written1, index |-> index1, cancelled |-> TRUE]
       ELSE parseFrames(M1, frames, index1, written1)

\* A setDefinition that leaves next_preset of an indefinite Pattern as the
\* stack held it.
setDefinition_NextPresetUnset(M, doc, t) ==
  IF ~doc.parse_ok
  THEN Logged(M, <<"serial", "Error deserializing JSON">>)
  ELSE IF ~doc.has_frames \/ Len(doc.frames) = 0
  THEN Logged(M, <<"serial", "Frames definition missing or empty! Cancelling.">>)
  ELSE
    LET parsed == parseFrames(M, doc.frames, 0, <<>>)
    IN IF parsed.cancelled THEN parsed.M
       ELSE IF ~doc.has_delay \/ doc.delay = -1
       THEN setPattern(parsed.M, stack_pattern(parsed.frames, ULONG_MAX, 255), t)
       ELSE IF ~doc.has_next_preset
       THEN Logged(parsed.M, <<"serial", "Missing next preset! Cancelling.">>)
       ELSE IF getPresetId(doc.next_preset) < 0
       THEN Logged(parsed.M, <<"serial", "Unknown preset! Cancelling.">>)
       ELSE setPattern(parsed.M,
                       stack_pattern(parsed.frames, JsonAsULong(doc.delay),
                                     getPresetId(doc.next_preset)), t)

\* A setDefinition that looks next_preset up before it looks at the delay.
setDefinition_AlwaysNeedsNextPreset(M, doc, t) ==
  IF ~doc.parse_ok
  THEN Logged(M, <<"serial", "Error deserializing JSON">>)
  ELSE IF ~doc.has_frames \/ Len(doc.frames) = 0
  THEN Logged(M, <<"serial", "Frames definition missing or empty! Cancelling.">>)
  ELSE
    LET parsed == parseFrames(M, doc.frames, 0, <<>>)
    IN IF parsed.cancelled THEN parsed.M
       ELSE IF ~doc.has_next_preset
       THEN Logged(parsed.M, <<"serial", "Missing next preset! Cancelling.">>)
       ELSE IF getPresetId(doc.next_preset) < 0
       THEN Logged(parsed.M, <<"serial", "Unknown preset! Cancelling.">>)
       ELSE IF ~doc.has_delay \/ doc.delay = -1
       THEN setPattern(parsed.M, stack_pattern(parsed.frames, ULONG_MAX, 0), t)
       ELSE setPattern(parsed.M,
                       stack_pattern(parsed.frames, JsonAsULong(doc.delay),
                                     getPresetId(doc.next_preset)), t)

\* A setDefinition that answers missing or empty frames with the off preset.
setDefinition_OffOnMissingFrames(M, doc, t) ==
  IF ~doc.parse_ok
  THEN Logged(M, <<"serial", "Error deserializing JSON">>)
  ELSE IF ~doc.has_frames \/ Len(doc.frames) = 0
  THEN setPreset(M, PRESET_OFF, t)
  ELSE
    LET parsed == parseFrames(M, doc.frames, 0, <<>>)
    IN IF parsed.cancelled THEN parsed.M
       ELSE IF ~doc.has_delay \/ doc.delay = -1
       THEN setPattern(parsed.M, stack_pattern(parsed.frames, ULONG_MAX, 0), t)
       ELSE IF ~doc.has_next_preset
       THEN Logged(parsed.M, <<"serial", "Missing next preset! Cancelling.">>)
       ELSE IF getPresetId(doc.next_preset) < 0
       THEN Logged(parsed.M, <<"serial", "Unknown preset! Cancelling.">>)
       ELSE setPattern(parsed.M,
                       stack_pattern(parsed.frames, JsonAsULong(doc.delay),
                                     getPresetId(doc.next_preset)), t)

setDefinition(M, doc, t) ==
  IF ~doc.parse_ok
  THEN Logged(M, <<"serial", "Error deserializing JSON">>)
  ELSE IF ~doc.has_frames \/ Len(doc.frames) = 0
  THEN Logged(M, <<"serial", "Frames definition missing or empty! Cancelling.">>)
  ELSE
    LET parsed == parseFrames(M, doc.frames, 0, <<>>)
    IN IF parsed.cancelled THEN parsed.M
       ELSE IF ~doc.has_delay \/ doc.delay = -1
       THEN setPattern(parsed.M, stack_pattern(parsed.frames, ULONG_MAX, 0), t)
       ELSE IF ~doc.has_next_preset
       THEN Logged(parsed.M, <<"serial", "Missing next preset! Cancelling.">>)
       ELSE IF getPresetId(doc.next_preset) < 0
       THEN Logged(parsed.M, <<"serial", "Unknown preset! Cancelling.">>)
       ELSE setPattern(parsed.M,
                       stack_pattern(parsed.frames, JsonAsULong(doc.delay),
                                     getPresetId(doc.next_preset)), t)

(***************************************************************************)
(* MQTT and Wi-Fi                                                          *)
(***************************************************************************)
sendIdentity(M) == publish(M, "identity", "online")

\* A connect that does not show the connecting program first.
mqttConnect_SkipsConnecting(M, t, ok) ==
  LET M1 == Logged([M EXCEPT !.attemptedAt = t],
                   <<"connect", "identity", "offline", ok>>)
  IN IF ok
     THEN sendIdentity(setProgram([M1 EXCEPT !.connected = TRUE], PROGRAM_USER, t))
     ELSE setProgram(M1, PROGRAM_MQTT_ERROR, t)

\* A connect that does not announce the identity.
mqttConnect_NoIdentity(M, t, ok) ==
  LET M1 == Logged(setProgram([M EXCEPT !.attemptedAt = t],
                              PROGRAM_MQTT_CONNECTING, t),
                   <<"connect", "identity", "offline", ok>>)
  IN IF ok
     THEN setProgram([M1 EXCEPT !.connected = TRUE], PROGRAM_USER, t)
     ELSE setProgram(M1, PROGRAM_MQTT_ERROR, t)

\* `ok` is the result of mqttClient.connect, which registers "offline" as
\* the last will on the identity topic.
mqttConnect(M, t, ok) ==
  LET M1 == Logged(setProgram([M EXCEPT !.attemptedAt = t],
                              PROGRAM_MQTT_CONNECTING, t),
                   <<"connect", "identity", "offline", ok>>)
  IN IF ok
     THEN sendIdentity(setProgram([M1 EXCEPT !.connected = TRUE], PROGRAM_USER, t))
     ELSE setProgram(M1, PROGRAM_MQTT_ERROR, t)

\* A reconnect that tries again at once when the attempt fails.
mqttReconnect_RetriesAtOnce(M, t, ok) ==
  IF Elapsed(t, M.lastReconnectAttempt) > MQTT_RECONNECT_DELAY
  THEN LET M1 == mqttConnect([M EXCEPT !.lastReconnectAttempt = t], t, ok)
       IN IF M1.connected THEN [M1 EXCEPT !.lastReconnectAttempt = 0]
          ELSE mqttConnect(M1, t, ok)
  ELSE M

\* A reconnect that makes an attempt on every pass.
mqttReconnect_IgnoresDelay(M, t, ok) ==
  LET M1 == mqttConnect([M EXCEPT !.lastReconnectAttempt = t], t, ok)
  IN IF M1.connected THEN [M1 EXCEPT !.lastReconnectAttempt = 0] ELSE M1

mqttReconnect(M, t, ok) ==
  IF Elapsed(t, M.lastReconnectAttempt) > MQTT_RECONNECT_DELAY
  THEN LET M1 == mqttConnect([M EXCEPT !.lastReconnectAttempt = t], t, ok)
       IN IF M1.connected THEN [M1 EXCEPT !.lastReconnectAttempt = 0] ELSE M1
  ELSE M

\* A callback that restarts the player when it is asked to identify.
mqttCallback_IdentifyReinits(M, topic, payload, t) ==
  IF topic = "identify" THEN sendIdentity(loopDisplay(M, t, TRUE))
  ELSE IF topic = "preset" THEN setPresetName(M, payload, t)
  ELSE IF topic = "definition" THEN setDefinition(M, payload, t)
  ELSE M

\* `topic` is the suffix topicMatch finds (for this node or for all nodes).
mqttCallback(M, topic, payload, t) ==
  IF topic = "identify" THEN sendIdentity(M)
  ELSE IF topic = "preset" THEN setPresetName(M, payload, t)
  ELSE IF topic = "definition" THEN setDefinition(M, payload, t)
  ELSE M

setupMQTT(M) == [M EXCEPT !.connected = FALSE, !.lastReconnectAttempt = 0]

finalizeWifi(M, connectStatus, t) ==
  IF connectStatus THEN [M EXCEPT !.wifiFeaturesEnabled = TRUE]
  ELSE setProgram([M EXCEPT !.wifiFeaturesEnabled = FALSE], PROGRAM_WIFI_ERROR, t)

configModeCallback(M, t) == setProgram(M, PROGRAM_WIFI_HOTSPOT, t)

\* WiFiManager starts the configuration portal (`portal`: it calls the AP
\* callback) and returns connectStatus.
buttonLongPress(M, portal, connectStatus, t) ==
  finalizeWifi(IF portal THEN configModeCallback(M, t) ELSE M, connectStatus, t)

setupWifi(M, portal, connectStatus, t) ==
  LET M1 == setProgram(M, PROGRAM_WIFI_CONNECTING, t)
  IN finalizeWifi(IF portal THEN configModeCallback(M1, t) ELSE M1, connectStatus, t)

LampsOff == [red |-> FALSE, amber |-> FALSE, green |-> FALSE]

setupDisplay(M) == [M EXCEPT !.lights = LampsOff]

setup(M, portal, connectStatus, t) ==
  setupMQTT(setupWifi(setupDisplay(M), portal, connectStatus, t))

(***************************************************************************)
(* Inputs: the commands the broker delivers.                               *)
(***************************************************************************)
\* n frames, red on odd slots, each held 200 ms.
BlinkFrames(n) == [i \in 1 .. n |-> JsonFrame(i % 2 = 1, FALSE, FALSE, TRUE, 200)]

\* The README's scenario: blink red for 1500 ms, then preset "off".
DefBlinkRed ==
  JsonDefinition(TRUE, BlinkFrames(2), TRUE, 1500, TRUE, "off")

\* Pattern duration shorter than the first frame's.
DefShortLived ==
  JsonDefinition(TRUE, <<JsonFrame(FALSE, TRUE, FALSE, TRUE, 1000)>>, TRUE, 200, TRUE, "green")

\* An indefinite frame in a pattern of finite duration.
DefIndefiniteFrame ==
  JsonDefinition(TRUE, <<JsonFrame(TRUE, TRUE, FALSE, TRUE, -1)>>, TRUE, 200, TRUE, "green")

\* Frame and pattern durations of 0.
DefZero ==
  JsonDefinition(TRUE, <<JsonFrame(FALSE, TRUE, TRUE, TRUE, 0),
                         JsonFrame(TRUE, FALSE, TRUE, TRUE, 0)>>, TRUE, 0, TRUE, "off")

DefNegativeFrameDelay ==
  JsonDefinition(TRUE, <<JsonFrame(TRUE, FALSE, FALSE, TRUE, -5),
                         JsonFrame(FALSE, FALSE, TRUE, TRUE, 200)>>, FALSE, 0, FALSE, "")

DefNoFrameDelay ==
  JsonDefinition(TRUE, <<JsonFrame(TRUE, FALSE, TRUE, FALSE, 0)>>, TRUE, -1, TRUE, "")

DefEmptyFrames == JsonDefinition(TRUE, <<>>, TRUE, -1, FALSE, "")

DefNoFrames == JsonDefinition(FALSE, <<>>, TRUE, 200, TRUE, "green")

DefEmptyFramesTimed == JsonDefinition(TRUE, <<>>, TRUE, 1500, TRUE, "off")

DefUnknownNext ==
  JsonDefinition(TRUE, BlinkFrames(1), TRUE, 200, TRUE, "nonexistent")

DefMissingNext == JsonDefinition(TRUE, BlinkFrames(1), TRUE, 200, FALSE, "")

DefIndefiniteUnknownNext ==
  JsonDefinition(TRUE, BlinkFrames(2), TRUE, -1, TRUE, "nonexistent")

DefNegativeDelay ==
  JsonDefinition(TRUE, BlinkFrames(1), TRUE, -5, TRUE, "green")

DefFull == JsonDefinition(TRUE, BlinkFrames(PATTERN_FRAME_MAX), FALSE, 0, FALSE, "")

DefOverfull ==
  JsonDefinition(TRUE, BlinkFrames(PATTERN_FRAME_MAX + 1), FALSE, 0, FALSE, "")

\* One frame too many, the last one with a negative delay.
DefOverfullMalformed ==
  JsonDefinition(TRUE, BlinkFrames(PATTERN_FRAME_MAX)
                       \o <<JsonFrame(TRUE, TRUE, TRUE, TRUE, -5)>>,
                 TRUE, 200, TRUE, "green")

Definitions ==
  {DefBlinkRed, DefShortLived, DefIndefiniteFrame, DefZero, DefNegativeFrameDelay,
   DefNoFrameDelay, DefEmptyFrames, DefNoFrames, DefEmptyFramesTimed, DefUnknownNext, DefMissingNext,
   DefIndefiniteUnknownNext, DefNegativeDelay, DefFull, DefOverfull,
   DefOverfullMalformed, JsonUnparsable}

PresetCommands ==
  {presetNames[i] : i \in 1 .. PRESET_COUNT} \cup {"nonexistent", ""}

\* The commands the broker delivers in Spec.
LoopPresetCommands == {"green", "chase", "cylon", "nonexistent"}

LoopDefinitions ==
  {DefBlinkRed, DefIndefiniteFrame, DefNegativeFrameDelay, DefNegativeDelay,
   DefEmptyFrames, DefOverfull}

(***************************************************************************)
(* The state after construction, and the steps.                            *)
(***************************************************************************)
Init ==
  /\ currentProgram = 0
  /\ currentUserPattern = presetList[PRESET_OFF + 1]
  /\ state = [p \in Programs |-> stack_state(0, 0, 0)]
  /\ lights = LampsOff
  /\ connected = FALSE
  /\ wifiFeaturesEnabled = FALSE
  /\ lastReconnectAttempt = 0
  /\ now = 0
  /\ pc = "setup"
  /\ log = <<>>
  /\ call = <<"boot">>
  /\ played = [p \in Programs |-> 0]
  /\ pending = FALSE
  /\ attemptedAt = -1
  /\ events = 0

\* Step c ended in M (the handler's result R); control moves to `next`.
Commit(c, M, next) ==
  \E R \in {M} :
    /\ call' = c
    /\ played' = R.played
    /\ pending' = R.pending
    /\ attemptedAt' = R.attemptedAt
    /\ currentProgram' = R.currentProgram
    /\ currentUserPattern' = R.currentUserPattern
    /\ state' = R.state
    /\ lights' = R.lights
    /\ connected' = R.connected
    /\ wifiFeaturesEnabled' = R.wifiFeaturesEnabled
    /\ lastReconnectAttempt' = R.lastReconnectAttempt
    /\ log' = R.log
    /\ pc' = next
    /\ UNCHANGED now

\* One more act of the environment.
Event ==
  /\ events < MaxEvents
  /\ events' = events + 1

\* millis() moves on by d.
ClockStep(d) ==
  /\ now' = (now + d) % ClockMod
  /\ call' = <<"clock", d>>
  /\ UNCHANGED <<currentProgram, currentUserPattern, state, lights, connected,
                 wifiFeaturesEnabled, lastReconnectAttempt, pc, log, played,
                 pending, attemptedAt>>

\* Time passes between two passes of loop().
ClockAdvance ==
  /\ pc = "button"
  /\ Event
  /\ \E d \in ClockSteps : ClockStep(d)

Setup ==
  /\ pc = "setup"
  /\ \E portal \in BOOLEAN, connectStatus \in BOOLEAN :
       Commit(<<"setup", portal, connectStatus>>,
              setup(Machine, portal, connectStatus, now), "button")
  /\ UNCHANGED events

\* loop(): loopButton
ButtonIdle ==
  /\ pc = "button"
  /\ Commit(<<"buttonIdle">>, Machine, "display")
  /\ UNCHANGED events

ButtonLongPress ==
  /\ pc = "button"
  /\ Event
  /\ \E portal \in BOOLEAN, connectStatus \in BOOLEAN :
       Commit(<<"buttonLongPress", portal, connectStatus>>,
              buttonLongPress(Machine, portal, connectStatus, now), "display")

\* loop(): loopDisplay
LoopDisplay ==
  /\ pc = "display"
  /\ Commit(<<"loopDisplay">>, loopDisplay(Machine, now, FALSE), "wifi")
  /\ UNCHANGED events

\* loop(): loopWifi
WifiIdle ==
  /\ pc = "wifi"
  /\ Commit(<<"wifiIdle">>, Machine, "mqtt")
  /\ UNCHANGED events

\* wifiManager.process() runs saveConfigCallback, which ends in setupMQTT.
WifiSaveConfig ==
  /\ pc = "wifi"
  /\ Event
  /\ Commit(<<"saveConfigCallback">>, setupMQTT(Machine), "mqtt")

\* loop(): the MQTT branch
MqttIdle ==
  /\ pc = "mqtt"
  /\ ~wifiFeaturesEnabled \/ connected
  /\ Commit(<<"mqttIdle">>, Machine, "button")
  /\ UNCHANGED events

\* mqttClient.loop() hands one inbound message to mqttCallback.
MqttMessage ==
  /\ pc = "mqtt"
  /\ wifiFeaturesEnabled /\ connected
  /\ Event
  /\ \/ Commit(<<"mqttCallback", "identify", "">>,
               mqttCallback(Machine, "identify", "", now), "button")
     \/ \E name \in LoopPresetCommands :
          Commit(<<"mqttCallback", "preset", name>>,
                 mqttCallback(Machine, "preset", name, now), "button")
     \/ \E doc \in LoopDefinitions :
          Commit(<<"mqttCallback", "definition", doc>>,
                 mqttCallback(Machine, "definition", doc, now), "button")

\* The connection to the broker is lost.
MqttConnectionLost ==
  /\ pc = "mqtt"
  /\ wifiFeaturesEnabled /\ connected
  /\ Event
  /\ Commit(<<"connectionLost">>, [Machine EXCEPT !.connected = FALSE], "button")

MqttReconnect ==
  /\ pc = "mqtt"
  /\ wifiFeaturesEnabled /\ ~connected
  /\ \E ok \in BOOLEAN :
       Commit(<<"mqttReconnect", ok>>, mqttReconnect(Machine, now, ok), "button")
  /\ UNCHANGED events

Next ==
  \/ ClockAdvance
  \/ Setup
  \/ ButtonIdle
  \/ ButtonLongPress
  \/ LoopDisplay
  \/ WifiIdle
  \/ WifiSaveConfig
  \/ MqttIdle
  \/ MqttMessage
  \/ MqttConnectionLost
  \/ MqttReconnect

Spec == Init /\ [][Next]_vars

(***************************************************************************)
(* The control loop with a clock that moves on before every pass, for the  *)
(* properties of what eventually happens: loop() is called again and again *)
(* by the Arduino core and never blocks for good, so a step that is        *)
(* possible is eventually taken.                                           *)
(***************************************************************************)
MaxLiveEvents == 2

\* The longest time from one pass of loop() to the next.
MaxTickGap == 2048

LiveClockSteps == {MaxTickGap \div 2, MaxTickGap}

\* A definition that lasts until two milliseconds before the clock is back
\* where it was.
DefLongLived ==
  JsonDefinition(TRUE, BlinkFrames(1), TRUE, ULONG_MAX - 1, TRUE, "green")

LiveDefinitions == {DefBlinkRed, DefNegativeDelay, DefLongLived}

LivePresetCommands == {"green", "chase"}

\* millis() has moved on when loop() is entered.
LiveClockAdvance ==
  /\ pc = "button"
  /\ call[1] # "clock"
  /\ \E d \in LiveClockSteps : ClockStep(d)
  /\ UNCHANGED events

LiveButtonIdle ==
  /\ call[1] = "clock"
  /\ ButtonIdle

\* One more command from the broker.
LiveEvent ==
  /\ events < MaxLiveEvents
  /\ events' = events + 1

LiveMqttMessage ==
  /\ pc = "mqtt"
  /\ wifiFeaturesEnabled /\ connected
  /\ LiveEvent
  /\ \/ \E name \in LivePresetCommands :
          Commit(<<"mqttCallback", "preset", name>>,
                 mqttCallback(Machine, "preset", name, now), "button")
     \/ \E doc \in LiveDefinitions :
          Commit(<<"mqttCallback", "definition", doc>>,
                 mqttCallback(Machine, "definition", doc, now), "button")

\* The broker takes the connection when the firmware asks for it.
LiveMqttReconnect ==
  /\ pc = "mqtt"
  /\ wifiFeaturesEnabled /\ ~connected
  /\ Commit(<<"mqttReconnect", TRUE>>, mqttReconnect(Machine, now, TRUE), "button")
  /\ UNCHANGED events

NextLive ==
  \/ LiveClockAdvance
  \/ Setup
  \/ LiveButtonIdle
  \/ LoopDisplay
  \/ WifiIdle
  \/ MqttIdle
  \/ LiveMqttMessage
  \/ LiveMqttReconnect

SpecLive == Init /\ [][NextLive]_vars /\ WF_vars(NextLive)

(***************************************************************************)
(* SpecCalls: the same state driven by direct calls of the firmware's      *)
(* functions, with every argument value, in place of the control loop.     *)
(***************************************************************************)
Call ==
  /\ events < MaxCalls
  /\ events' = events + 1

CallClockAdvance ==
  /\ Call
  /\ \E d \in ClockSteps : ClockStep(d)

CallSetProgram ==
  /\ Call
  /\ \E program \in 0 .. (PROGRAM_COUNT + 1) :
       Commit(<<"setProgram", program>>, setProgram(Machine, program, now), pc)

CallSetPreset ==
  /\ Call
  /\ \E preset \in 0 .. (PRESET_COUNT + 1) :
       Commit(<<"setPreset", preset>>, setPreset(Machine, preset, now), pc)

CallMqttCallback ==
  /\ Call
  /\ \/ Commit(<<"mqttCallback", "identify", "">>,
               mqttCallback(Machine, "identify", "", now), pc)
     \/ \E name \in PresetCommands :
          Commit(<<"mqttCallback", "preset", name>>,
                 mqttCallback(Machine, "preset", name, now), pc)
     \/ \E doc \in Definitions :
          Commit(<<"mqttCallback", "definition", doc>>,
                 mqttCallback(Machine, "definition", doc, now), pc)

CallMqttConnect ==
  /\ Call
  /\ \E ok \in BOOLEAN :
       Commit(<<"mqttConnect", ok>>, mqttConnect(Machine, now, ok), pc)

CallLoopDisplay ==
  /\ Commit(<<"loopDisplay">>, loopDisplay(Machine, now, FALSE), pc)
  /\ UNCHANGED events

NextCalls ==
  \/ CallClockAdvance
  \/ CallSetProgram
  \/ CallSetPreset
  \/ CallMqttCallback
  \/ CallMqttConnect
  \/ CallLoopDisplay

SpecCalls == Init /\ [][NextCalls]_vars

(***************************************************************************)
(* SpecPlayer: runPattern called as programUser calls it, on the USER       *)
(* player's state, with every Pattern of PlayerPatterns as its argument:   *)
(* a stack_pattern can hold any uint8_t as next_preset.                    *)
(***************************************************************************)
PlayerPatterns ==
  { stack_pattern(<<pattern_frame(TRUE, FALSE, TRUE, fd)>>, d, n) :
      fd \in {200, ULONG_MAX}, d \in {200, ULONG_MAX}, n \in {1, PRESET_COUNT, 255} }

\* programUser(false) with `pattern` in the place of currentUserPattern.  The
\* Patterns have one frame each, as every user Pattern of this specification
\* has, so the player's index is within the frames of any of them.
CallRunPattern ==
  /\ Call
  /\ currentProgram = PROGRAM_USER
  /\ \E pattern \in PlayerPatterns :
       Commit(<<"runPattern", pattern>>,
              runPattern(Machine, PROGRAM_USER, pattern, now, FALSE), pc)

NextPlayer ==
  \/ CallClockAdvance
  \/ CallSetProgram
  \/ CallRunPattern
  \/ CallLoopDisplay

SpecPlayer == Init /\ [][NextPlayer]_vars

(***************************************************************************)
(* SpecRegistry: the lookups of the preset registry, applied to every id   *)
(* and to every name a command can carry.  `call` names the lookup and its *)
(* arguments, `log` holds the value it returns.                            *)
(***************************************************************************)
Lookup(c, result) ==
  /\ call' = c
  /\ log' = << <<"return", result>> >>
  /\ UNCHANGED <<currentProgram, currentUserPattern, state, lights, connected,
                 wifiFeaturesEnabled, lastReconnectAttempt, now, pc, played,
                 pending, attemptedAt, events>>

\* getPresetId(presetName)
LookupGetPresetId ==
  \E presetName \in PresetCommands :
    Lookup(<<"getPresetId", presetName>>, getPresetId(presetName))

\* presetNames[preset]
LookupPresetName ==
  \E preset \in 0 .. (PRESET_COUNT - 1) :
    Lookup(<<"presetNames", preset>>, presetNames[preset + 1])

\* getPresetId(presetNames[preset])
LookupIdOfName ==
  \E preset \in 0 .. (PRESET_COUNT - 1) :
    Lookup(<<"getPresetId(presetNames)", preset>>, getPresetId(presetNames[preset + 1]))

\* presetNames[getPresetId(presetName)], for a name the lookup finds; the
\* callers index presetNames only with an id that getPresetId returned.
LookupNameOfId ==
  \E presetName \in PresetCommands :
    Lookup(<<"presetNames(getPresetId)", presetName>>,
           IF getPresetId(presetName) >= 0
           THEN presetNames[getPresetId(presetName) + 1] ELSE "")

\* strcmp(presetNames[a], presetNames[b]) == 0
LookupSameName ==
  \E a \in 0 .. (PRESET_COUNT - 1), b \in 0 .. (PRESET_COUNT - 1) :
    Lookup(<<"strcmp", a, b>>, presetNames[a + 1] = presetNames[b + 1])

NextRegistry ==
  \/ LookupGetPresetId
  \/ LookupPresetName
  \/ LookupIdOfName
  \/ LookupNameOfId
  \/ LookupSameName

SpecRegistry == Init /\ [][NextRegistry]_vars

(***************************************************************************)
(* Properties                                                              *)
(***************************************************************************)
\* The events of kind k in the trace of the last handler.
LogHas(k) == \E i \in DOMAIN log : log[i][1] = k

Published == LogHas("publish")

\* C1: every install of a user Pattern (setPattern) leaves USER the current
\* program, with the USER player on index 0 and the lamps on Frame 0 of the
\* installed Pattern.
C1_InstallSelectsUser ==
  LogHas("install") =>
    /\ currentProgram = PROGRAM_USER
    /\ state[PROGRAM_USER].current_frame = 0
    /\ state[PROGRAM_USER].last_frame_at = state[PROGRAM_USER].pattern_start_at
    /\ lights = Lamps(currentUserPattern.frames[1])

\* C2: setProgram(id) with id the current program or id >= PROGRAM_COUNT
\* changes neither the current program, nor any player state, nor the user
\* Pattern, nor the lamps, and publishes nothing.
C2_SetProgramNoOp ==
  [][\A program \in 0 .. (PROGRAM_COUNT + 1) :
       (call' = <<"setProgram", program>>
        /\ (program = currentProgram \/ program >= PROGRAM_COUNT))
       => /\ UNCHANGED <<currentProgram, currentUserPattern, state, lights>>
          /\ log' = <<>>]_vars

\* setProgram was called with the id of a program that was made current
\* earlier, or with an id that names no program, and did nothing.
C2_Witness ==
  /\ call[1] = "setProgram"
  /\ log = <<>>
  /\ \/ call[2] = PROGRAM_COUNT
     \/ call[2] = currentProgram /\ currentProgram # PROGRAM_OFF

\* C3: from any current program a, setProgram(b) with b another program
\* makes b current and init-ticks b's Pattern: b's player is on index 0 with
\* both timestamps now, and the lamps show Frame 0 of b's Pattern.
C3_AnyTransition ==
  [][\A b \in Programs :
       (call' = <<"setProgram", b>> /\ b # currentProgram)
       => /\ currentProgram' = b
          /\ state'[b] = stack_state(0, now, now)
          /\ lights' = Lamps((IF b = PROGRAM_USER THEN currentUserPattern'
                              ELSE programPatterns[b + 1]).frames[1])
          /\ \A p \in Programs \ {b} : state'[p] = state[p]]_vars

\* setProgram has switched back to OFF from another program at a later time.
C3_Witness ==
  /\ call = <<"setProgram", PROGRAM_OFF>>
  /\ log # <<>>
  /\ currentProgram = PROGRAM_OFF
  /\ state[PROGRAM_OFF].pattern_start_at > 0

\* C4: an init tick leaves the player on index 0 with last_frame_at =
\* pattern_start_at = now, emits Frame 0 of the Pattern at once, and neither
\* advances the frame nor expires the Pattern in the same call, whatever the
\* frame and pattern durations.
C4_InitTick ==
  \A i \in DOMAIN log :
    log[i][1] = "init" =>
      /\ state[log[i][2]] = stack_state(0, log[i][3], log[i][3])
      /\ call[1] # "clock" => log[i][3] = now
      /\ i < Len(log)
      /\ log[i + 1] = <<"lights", Lamps(programPattern(Machine, log[i][2]).frames[1])>>
      /\ played[log[i][2]] = 0
      /\ \A j \in (i + 1) .. Len(log) :
           log[j][1] \in {"advance", "expire"} => log[j][2] # log[i][2]
      /\ (\A j \in (i + 1) .. Len(log) : log[j][1] # "init")
         => lights = Lamps(programPattern(Machine, log[i][2]).frames[1])

\* A Pattern whose first frame and whose own duration are 0 was installed
\* and init-ticked under USER.
C4_Witness ==
  /\ LogHas("init")
  /\ currentProgram = PROGRAM_USER
  /\ currentUserPattern.delay_ms = 0
  /\ currentUserPattern.frames[1].delay_ms = 0
  /\ state[PROGRAM_USER].current_frame = 0

\* The player of the current program before a step, and the frame it is on.
CurrentPattern == programPattern(Machine, currentProgram)

CurrentState == state[currentProgram]

CurrentFrame == CurrentPattern.frames[CurrentState.current_frame + 1]

\* The step is a steady tick of the player (loopDisplay from loop()).
SteadyTick == call' = <<"loopDisplay">>

\* C5: a steady tick that finds the current frame's finite duration exceeded
\* moves the player to (index + 1) mod frame_count, sets last_frame_at to
\* now and emits that frame; so the index is always the number of advances
\* since init modulo the frame count and the lamps show the frame at the
\* index: after k advances of a k-frame Pattern the player is on index 0
\* with the output it had right after init.
C5_FrameAdvanceWraps ==
  [][/\ (/\ SteadyTick
         /\ CurrentFrame.delay_ms # ULONG_MAX
         /\ Elapsed(now, CurrentState.last_frame_at) > CurrentFrame.delay_ms)
        => LET next == (CurrentState.current_frame + 1) % CurrentPattern.num_frames
           IN /\ Len(log') >= 2
              /\ log'[1][1] = "advance" /\ log'[1][2] = currentProgram
              /\ log'[1][3] = next /\ log'[1][4] = now
              /\ log'[2] = <<"lights", Lamps(CurrentPattern.frames[next + 1])>>
              /\ (\A i \in DOMAIN log' : log'[i][1] # "expire")
                 => /\ state'[currentProgram] =
                         stack_state(next, now, CurrentState.pattern_start_at)
                    /\ lights' = Lamps(CurrentPattern.frames[next + 1])
     /\ LET pattern == IF currentProgram' = PROGRAM_USER THEN currentUserPattern'
                       ELSE programPatterns[currentProgram' + 1]
            st == state'[currentProgram']
        IN /\ st.current_frame = played'[currentProgram'] % pattern.num_frames
           /\ lights' = Lamps(pattern.frames[st.current_frame + 1])
           /\ played'[currentProgram'] = pattern.num_frames
              => /\ st.current_frame = 0
                 /\ lights' = Lamps(pattern.frames[1])]_vars

\* A Pattern of two or more frames has advanced as many times as it has
\* frames since its init and is back on index 0.
C5_Witness ==
  /\ call = <<"loopDisplay">>
  /\ LogHas("advance")
  /\ CurrentPattern.num_frames >= 2
  /\ played[currentProgram] = CurrentPattern.num_frames
  /\ CurrentState.current_frame = 0

\* C6: a steady tick at which now - last_frame_at equals the frame's finite
\* duration does not advance the frame and one a millisecond later does; a
\* steady tick at which now - pattern_start_at equals the Pattern's finite
\* duration does not expire the Pattern and one a millisecond later does.
C6_BoundaryStrictness ==
  [][SteadyTick =>
       /\ (/\ CurrentFrame.delay_ms # ULONG_MAX
           /\ Elapsed(now, CurrentState.last_frame_at) = CurrentFrame.delay_ms)
          => \A i \in DOMAIN log' : log'[i][1] # "advance"
       /\ (/\ CurrentFrame.delay_ms # ULONG_MAX
           /\ Elapsed(now, CurrentState.last_frame_at) = CurrentFrame.delay_ms + 1)
          => /\ log' # <<>>
             /\ log'[1][1] = "advance"
       /\ (/\ CurrentPattern.delay_ms # ULONG_MAX
           /\ Elapsed(now, CurrentState.pattern_start_at) = CurrentPattern.delay_ms)
          => /\ \A i \in DOMAIN log' : log'[i][1] # "expire"
             /\ currentUserPattern' = currentUserPattern
       /\ (/\ CurrentPattern.delay_ms # ULONG_MAX
           /\ Elapsed(now, CurrentState.pattern_start_at) = CurrentPattern.delay_ms + 1)
          => /\ \E i \in DOMAIN log' : log'[i][1] = "expire"
             /\ currentUserPattern' = presetList[currentUserPattern.next_preset + 1]]_vars

\* A tick one millisecond after a Pattern's duration has expired it.
C6_Witness ==
  /\ call = <<"loopDisplay">>
  /\ \E i \in DOMAIN log : log[i][1] = "expire" /\ log[i][5] = 1

\* C7: while the player sits on a frame of indefinite duration, no steady
\* tick advances it, whatever time has passed: unless the Pattern expires on
\* that tick, index, timestamps and lamps stay and nothing is emitted.
C7_IndefiniteFrameStays ==
  [][(SteadyTick /\ CurrentFrame.delay_ms = ULONG_MAX)
     => /\ \A i \in DOMAIN log' : log'[i][1] # "advance"
        /\ (\A i \in DOMAIN log' : log'[i][1] # "expire")
           => /\ state' = state
              /\ lights' = lights
              /\ log' = <<>>]_vars

\* The green preset, one indefinite frame, was ticked under USER more than
\* three seconds after its init and stayed.
C7_Witness ==
  /\ call = <<"loopDisplay">>
  /\ log = <<>>
  /\ currentProgram = PROGRAM_USER
  /\ currentUserPattern = presetList[2]
  /\ CurrentFrame.delay_ms = ULONG_MAX
  /\ Elapsed(now, CurrentState.last_frame_at) > MQTT_RECONNECT_DELAY

\* C8: every steady tick under USER that finds now - pattern_start_at above
\* the user Pattern's finite duration replaces the user Pattern by the
\* registry Pattern of its successor preset and re-inits the USER player
\* (index 0, both timestamps now, the successor's Frame 0 on the lamps),
\* whether or not a frame advances on that tick.
C8_ExpiryEveryTick ==
  [][(/\ SteadyTick
      /\ currentProgram = PROGRAM_USER
      /\ currentUserPattern.delay_ms # ULONG_MAX
      /\ Elapsed(now, state[PROGRAM_USER].pattern_start_at) > currentUserPattern.delay_ms)
     => /\ currentUserPattern' = presetList[currentUserPattern.next_preset + 1]
        /\ currentProgram' = PROGRAM_USER
        /\ state'[PROGRAM_USER] = stack_state(0, now, now)
        /\ lights' = Lamps(presetList[currentUserPattern.next_preset + 1].frames[1])
        /\ \E i \in DOMAIN log' :
             /\ log'[i][1] = "expire"
             /\ i < Len(log')
             /\ log'[i + 1] = <<"install", presetList[currentUserPattern.next_preset + 1]>>]_vars

\* A Pattern expired into the green preset on a tick that advanced no frame.
C8_Witness ==
  /\ call = <<"loopDisplay">>
  /\ log # <<>>
  /\ log[1][1] = "expire"
  /\ currentProgram = PROGRAM_USER
  /\ currentUserPattern = presetList[2]
  /\ lights = Lamps(presetList[2].frames[1])

\* The step is the delivery of a definition command.
DefinitionCommand(doc) == call' = <<"mqttCallback", "definition", doc>>

\* C9: a definition of more than PATTERN_FRAME_MAX frames leaves the user
\* Pattern, the current program, every player state and the lamps as they
\* were and publishes nothing; a definition of exactly PATTERN_FRAME_MAX
\* frames that passes the other rules is installed with all its frames.
C9_CapacityAtomic ==
  [][\A doc \in Definitions :
       (DefinitionCommand(doc) /\ doc.parse_ok /\ doc.has_frames) =>
         /\ Len(doc.frames) > PATTERN_FRAME_MAX
            => /\ UNCHANGED <<currentUserPattern, currentProgram, state, lights>>
               /\ \A i \in DOMAIN log' : log'[i][1] \notin {"publish", "install", "lights"}
         /\ (/\ Len(doc.frames) = PATTERN_FRAME_MAX
             /\ ~doc.has_delay
             /\ \A i \in DOMAIN doc.frames :
                  doc.frames[i].has_delay /\ doc.frames[i].delay >= 0)
            => /\ currentUserPattern'.num_frames = PATTERN_FRAME_MAX
               /\ Len(currentUserPattern'.frames) = PATTERN_FRAME_MAX
               /\ \A i \in DOMAIN doc.frames :
                    currentUserPattern'.frames[i] =
                      pattern_frame(doc.frames[i].red, doc.frames[i].amber,
                                    doc.frames[i].green, doc.frames[i].delay)]_vars

\* A definition of 33 frames was turned down while the user Pattern was one
\* of 32 frames installed by an earlier definition.
C9_Witness ==
  /\ call = <<"mqttCallback", "definition", DefOverfullMalformed>>
  /\ currentUserPattern.num_frames = PATTERN_FRAME_MAX
  /\ ~LogHas("install")

\* C10: a definition with a frame whose delay is present and is neither -1
\* nor a non-negative integer is not installed: the user Pattern is the same
\* after the command.
C10_InvalidFrameDelayRejected ==
  [][\A doc \in Definitions :
       (/\ DefinitionCommand(doc)
        /\ \E i \in DOMAIN doc.frames :
             doc.frames[i].has_delay /\ doc.frames[i].delay < -1)
       => /\ currentUserPattern' = currentUserPattern
          /\ \A i \in DOMAIN log' : log'[i][1] # "install"]_vars

\* The trace of the step holds an event of kind k.
Logs(k) == \E i \in DOMAIN log' : log'[i][1] = k

\* C11: a definition whose frames are absent or an empty list is turned down
\* whatever its other fields hold: nothing is installed and the user Pattern
\* stays.
C11_MissingFramesRejected ==
  [][\A doc \in Definitions :
       (/\ DefinitionCommand(doc)
        /\ doc.parse_ok
        /\ ~doc.has_frames \/ Len(doc.frames) = 0)
       => /\ currentUserPattern' = currentUserPattern
          /\ ~Logs("install")
          /\ log' = << <<"serial", "Frames definition missing or empty! Cancelling.">> >>]_vars

\* {"frames":[],"delay":-1} was turned down while a Pattern other than the
\* default was the user Pattern.
C11_Witness ==
  /\ call = <<"mqttCallback", "definition", DefEmptyFrames>>
  /\ currentUserPattern # presetList[PRESET_OFF + 1]
  /\ ~LogHas("install")

\* The names of the registry.
RegistryNames == {presetNames[i] : i \in 1 .. PRESET_COUNT}

\* C12: a definition whose top-level delay is present and not -1 is
\* installed only if that delay is a non-negative integer and next_preset is
\* present and names a preset of the registry.
C12_TimedDefinitionValidated ==
  [][\A doc \in Definitions :
       (/\ DefinitionCommand(doc)
        /\ doc.parse_ok /\ doc.has_delay /\ doc.delay # -1
        /\ Logs("install"))
       => /\ doc.delay >= 0
          /\ doc.has_next_preset
          /\ doc.next_preset \in RegistryNames]_vars

\* The frames of doc are between 1 and PATTERN_FRAME_MAX, each with a delay
\* that is absent, -1 or a non-negative integer.
ValidFrames(doc) ==
  /\ doc.parse_ok /\ doc.has_frames
  /\ Len(doc.frames) >= 1 /\ Len(doc.frames) <= PATTERN_FRAME_MAX
  /\ \A i \in DOMAIN doc.frames :
       ~doc.frames[i].has_delay \/ doc.frames[i].delay >= -1

\* The top-level delay of doc is absent or -1.
IndefiniteDelay(doc) == ~doc.has_delay \/ doc.delay = -1

\* The top-level delay of doc is a duration and next_preset names a preset.
ValidTimedDelay(doc) ==
  /\ doc.has_delay /\ doc.delay >= 0
  /\ doc.has_next_preset /\ doc.next_preset \in RegistryNames

\* C13: a definition with valid frames whose top-level delay is absent or -1
\* is installed with indefinite duration whatever next_preset holds, and a
\* Pattern of indefinite duration is never expired by a tick.
C13_IndefiniteIgnoresNextPreset ==
  [][/\ \A doc \in Definitions :
          (DefinitionCommand(doc) /\ ValidFrames(doc) /\ IndefiniteDelay(doc))
          => /\ Logs("install")
             /\ currentUserPattern'.delay_ms = ULONG_MAX
             /\ currentUserPattern'.num_frames = Len(doc.frames)
     /\ (SteadyTick /\ CurrentPattern.delay_ms = ULONG_MAX)
        => /\ ~Logs("expire")
           /\ currentUserPattern' = currentUserPattern]_vars

\* The definition with delay -1 and next_preset "nonexistent" is the user
\* Pattern and was ticked under USER more than three seconds after its init.
C13_Witness ==
  /\ call = <<"loopDisplay">>
  /\ currentProgram = PROGRAM_USER
  /\ currentUserPattern =
       stack_pattern(<<pattern_frame(TRUE, FALSE, FALSE, 200),
                       pattern_frame(FALSE, FALSE, FALSE, 200)>>, ULONG_MAX, 0)
  /\ Elapsed(now, state[PROGRAM_USER].pattern_start_at) > MQTT_RECONNECT_DELAY

\* doc breaks one of the rules of the validator.
InvalidDefinition(doc) ==
  \/ ~ValidFrames(doc)
  \/ ~IndefiniteDelay(doc) /\ ~ValidTimedDelay(doc)

\* The step is the delivery of a preset command.
PresetCommand(name) == call' = <<"mqttCallback", "preset", name>>

\* The signal stack is after the step as it was before, and the step has
\* published nothing.
StackUntouched ==
  /\ UNCHANGED <<currentUserPattern, currentProgram, state, lights>>
  /\ ~Logs("publish")

\* C14: a definition that is unparsable or breaks a rule of the validator,
\* and a preset command with a name the registry lacks, leave user Pattern,
\* current program, every player state and the lamps as they were and
\* publish nothing.
C14_RejectedLeavesState ==
  [][/\ \A doc \in Definitions :
          (DefinitionCommand(doc) /\ InvalidDefinition(doc)) => StackUntouched
     /\ \A name \in PresetCommands \ RegistryNames :
          PresetCommand(name) => StackUntouched]_vars

\* C15: a preset command with a name the registry lacks, and setPreset with
\* an id >= PRESET_COUNT, change neither the user Pattern, nor the current
\* program, nor a player state, nor the lamps, and make no publish call.
C15_UnknownPresetIgnored ==
  [][/\ \A name \in PresetCommands \ RegistryNames :
          PresetCommand(name) => (StackUntouched /\ log' = <<>>)
     /\ \A preset \in PRESET_COUNT .. (PRESET_COUNT + 1) :
          call' = <<"setPreset", preset>> => (StackUntouched /\ log' = <<>>)]_vars

\* The preset command "nonexistent" did nothing while a Pattern other than
\* the default was the user Pattern.
C15_Witness ==
  /\ call = <<"mqttCallback", "preset", "nonexistent">>
  /\ log = <<>>
  /\ currentUserPattern # presetList[PRESET_OFF + 1]

\* C16: a preset command with the name of registry entry id makes the user
\* Pattern that entry, frames, duration and successor; "chase" gives the
\* three frames red, amber, green of 350 ms each with indefinite duration.
C16_PresetCopiesRegistry ==
  [][/\ \A id \in 0 .. (PRESET_COUNT - 1) :
          PresetCommand(presetNames[id + 1])
          => /\ currentUserPattern' = presetList[id + 1]
             /\ Len(currentUserPattern'.frames) = currentUserPattern'.num_frames
     /\ PresetCommand("chase")
        => currentUserPattern' =
             [frames |-> <<pattern_frame(TRUE, FALSE, FALSE, 350),
                           pattern_frame(FALSE, TRUE, FALSE, 350),
                           pattern_frame(FALSE, FALSE, TRUE, 350)>>,
              num_frames |-> 3, delay_ms |-> ULONG_MAX, next_preset |-> 0]]_vars

\* The preset command "chase" was carried out under USER.
C16_Witness ==
  /\ call = <<"mqttCallback", "preset", "chase">>
  /\ LogHas("install")
  /\ currentProgram = PROGRAM_USER
  /\ currentUserPattern.num_frames = 3
  /\ lights = [red |-> TRUE, amber |-> FALSE, green |-> FALSE]

\* C17: a definition that passes the validator installs a user Pattern with
\* the document's frames in order, the same lamp values, each frame delay the
\* document's or indefinite where it is absent or -1, the document's number
\* of frames, and the duration and successor of the top-level fields.
C17_DefinitionInstalledAsGiven ==
  [][\A doc \in Definitions :
       (/\ DefinitionCommand(doc)
        /\ ValidFrames(doc)
        /\ IndefiniteDelay(doc) \/ ValidTimedDelay(doc))
       => /\ Logs("install")
          /\ currentUserPattern'.num_frames = Len(doc.frames)
          /\ Len(currentUserPattern'.frames) = Len(doc.frames)
          /\ \A i \in DOMAIN doc.frames :
               /\ currentUserPattern'.frames[i].red_state = doc.frames[i].red
               /\ currentUserPattern'.frames[i].amber_state = doc.frames[i].amber
               /\ currentUserPattern'.frames[i].green_state = doc.frames[i].green
               /\ currentUserPattern'.frames[i].delay_ms =
                    IF ~doc.frames[i].has_delay \/ doc.frames[i].delay = -1
                    THEN ULONG_MAX ELSE doc.frames[i].delay
          /\ IndefiniteDelay(doc) => currentUserPattern'.delay_ms = ULONG_MAX
          /\ ~IndefiniteDelay(doc)
             => /\ currentUserPattern'.delay_ms = doc.delay
                /\ presetNames[currentUserPattern'.next_preset + 1] = doc.next_preset]_vars

\* The definition of the README's scenario was installed: two frames, 1500
\* ms, then "off".
C17_Witness ==
  /\ call = <<"mqttCallback", "definition", DefBlinkRed>>
  /\ LogHas("install")
  /\ currentUserPattern.num_frames = 2
  /\ currentUserPattern.delay_ms = 1500
  /\ currentUserPattern.next_preset = PRESET_OFF

\* Event e is a publish call on `topic`, sent or dropped.
IsCall(e, topic) == e[1] \in {"publish", "dropped"} /\ e[2] = topic

\* Event e is a notification sent on `topic`.
IsSent(e, topic) == e[1] = "publish" /\ e[2] = topic

\* payload is the document the `pattern` topic carries for pattern: the
\* frames in order, a frame's delay left out where it is indefinite, and the
\* top-level delay and next_preset left out where the duration is indefinite.
EchoOf(pattern, payload) ==
  /\ Len(payload.frames) = pattern.num_frames
  /\ \A i \in 1 .. pattern.num_frames :
       /\ payload.frames[i].red = pattern.frames[i].red_state
       /\ payload.frames[i].amber = pattern.frames[i].amber_state
       /\ payload.frames[i].green = pattern.frames[i].green_state
       /\ payload.frames[i].has_delay = (pattern.frames[i].delay_ms # ULONG_MAX)
       /\ payload.frames[i].has_delay
          => payload.frames[i].delay = pattern.frames[i].delay_ms
  /\ payload.has_delay = (pattern.delay_ms # ULONG_MAX)
  /\ payload.has_next_preset = (pattern.delay_ms # ULONG_MAX)
  /\ payload.has_delay
     => /\ payload.delay = pattern.delay_ms
        /\ payload.next_preset = presetNames[pattern.next_preset + 1]

\* The install logged at i, and no other, is answered by a publish call on
\* the `pattern` topic that carries the installed Pattern.
InstallCalledOnce(i) ==
  \E j \in (i + 1) .. Len(log) :
    /\ IsCall(log[j], "pattern")
    /\ EchoOf(log[i][2], log[j][3])
    /\ \A k \in (i + 1) .. Len(log) :
         (k # j /\ (k < j \/ \A l \in (j + 1) .. k : log[l][1] # "install"))
         => ~IsCall(log[k], "pattern") /\ (k < j => log[k][1] # "install")

\* C18 as claimed: every install of a user Pattern publishes exactly one
\* `pattern` notification that carries the installed Pattern.
C18_InstallPublishesPattern ==
  /\ \A i \in DOMAIN log :
       log[i][1] = "install"
       => /\ InstallCalledOnce(i)
          /\ \A j \in (i + 1) .. Len(log) :
               IsCall(log[j], "pattern") => IsSent(log[j], "pattern")
  /\ Cardinality({i \in DOMAIN log : log[i][1] = "install"}) =
       Cardinality({j \in DOMAIN log : IsSent(log[j], "pattern")})

\* C18: every install of a user Pattern (preset, definition or expiry
\* successor) makes exactly one publish call on the `pattern` topic, which
\* carries the installed frames in order and leaves out the delay of an
\* indefinite frame and the delay and next_preset of an indefinite Pattern;
\* the notification is sent if the broker connection is up and dropped if it
\* is down.  Preset "chase" echoes the registry's three frames and no
\* top-level delay.
C18_InstallCallsPublishOnce ==
  /\ \A i \in DOMAIN log :
       log[i][1] = "install"
       => /\ InstallCalledOnce(i)
          /\ \A j \in (i + 1) .. Len(log) :
               IsCall(log[j], "pattern") => (IsSent(log[j], "pattern") <=> connected)
  /\ Cardinality({i \in DOMAIN log : log[i][1] = "install"}) =
       Cardinality({j \in DOMAIN log : IsCall(log[j], "pattern")})
  /\ call = <<"mqttCallback", "preset", "chase">>
     => \E j \in DOMAIN log :
          /\ IsCall(log[j], "pattern")
          /\ log[j][3] =
               [frames |-> << [red |-> TRUE, amber |-> FALSE, green |-> FALSE,
                               has_delay |-> TRUE, delay |-> 350],
                              [red |-> FALSE, amber |-> TRUE, green |-> FALSE,
                               has_delay |-> TRUE, delay |-> 350],
                              [red |-> FALSE, amber |-> FALSE, green |-> TRUE,
                               has_delay |-> TRUE, delay |-> 350] >>,
                has_delay |-> FALSE, delay |-> 0,
                has_next_preset |-> FALSE, next_preset |-> ""]

\* Preset "chase" was installed while the broker connection was up and its
\* `pattern` notification was sent.
C18_Witness ==
  /\ call = <<"mqttCallback", "preset", "chase">>
  /\ connected
  /\ LogHas("install")
  /\ \E j \in DOMAIN log : IsSent(log[j], "pattern")

\* The lamp outputs and program switches of the trace, each with its one
\* publish call: a "lights" event is followed at once by the call on `state`
\* with the same lamp values, a "program" event is followed, before the
\* next one, by the call on `program` with the program's name.
CallPerChange(lg) ==
  /\ \A i \in DOMAIN lg :
       lg[i][1] = "lights"
       => i < Len(lg) /\ IsCall(lg[i + 1], "state") /\ lg[i + 1][3] = lg[i][2]
  /\ Cardinality({i \in DOMAIN lg : lg[i][1] = "lights"}) =
       Cardinality({j \in DOMAIN lg : IsCall(lg[j], "state")})
  /\ \A i \in DOMAIN lg :
       lg[i][1] = "program"
       => \E j \in (i + 1) .. Len(lg) :
            /\ IsCall(lg[j], "program")
            /\ lg[j][3] = programNames[lg[i][2] + 1]
            /\ \A k \in (i + 1) .. (j - 1) :
                 lg[k][1] # "program" /\ ~IsCall(lg[k], "program")
  /\ Cardinality({i \in DOMAIN lg : lg[i][1] = "program"}) =
       Cardinality({j \in DOMAIN lg : IsCall(lg[j], "program")})

\* C19 as claimed: every lamp output publishes one `state` notification,
\* every program switch one `program` notification.
C19_ChangePublishes ==
  /\ CallPerChange(log)
  /\ \A i \in DOMAIN log : log[i][1] # "dropped"

\* C19: every lamp output of the player makes exactly one publish call on
\* `state` with the frame's three lamp values and every setProgram that
\* changes the current program exactly one on `program` with the new name;
\* the notifications are sent while the broker connection is up and dropped
\* while it is down; a setProgram that changes nothing, an unknown preset
\* and a definition that is turned down make no publish call.
C19_ChangeCallsPublishOnce ==
  [][/\ CallPerChange(log')
     /\ (call'[1] # "clock" /\ connected /\ connected') => ~Logs("dropped")
     /\ (call'[1] # "clock" /\ ~connected /\ ~connected') => ~Logs("publish")
     /\ (call' = <<"buttonLongPress", FALSE, FALSE>>
         /\ currentProgram = PROGRAM_WIFI_ERROR) => log' = <<>>
     /\ \A name \in PresetCommands \ RegistryNames :
          PresetCommand(name) => ~Logs("publish") /\ ~Logs("dropped")
     /\ \A doc \in Definitions :
          (DefinitionCommand(doc) /\ ~Logs("install"))
          => ~Logs("publish") /\ ~Logs("dropped")]_vars

\* A connection attempt succeeded: the switch to USER and the lamp output of
\* its init were each published.
C19_Witness ==
  /\ call = <<"mqttReconnect", TRUE>>
  /\ connected
  /\ \E i \in DOMAIN log :
       /\ log[i] = <<"program", PROGRAM_USER>>
       /\ log[i + 1][1] = "init"
       /\ log[i + 2][1] = "lights"
       /\ log[i + 3] = <<"publish", "state", log[i + 2][2]>>
       /\ log[i + 4] = <<"publish", "program", "user">>

\* C20: in every reachable state the successor preset of the user Pattern
\* is an id of the registry, and no expiry has found one that is not (the
\* fallback to the off preset is never taken).
C20_SuccessorAlwaysValid ==
  /\ isValidPresetId(currentUserPattern.next_preset)
  /\ \A i \in DOMAIN log : log[i][1] = "expire" => isValidPresetId(log[i][3])

\* A Pattern has expired into its successor, the green preset.
C20_Witness ==
  /\ call = <<"loopDisplay">>
  /\ \E i \in DOMAIN log : log[i][1] = "expire" /\ log[i][3] = 1
  /\ currentUserPattern = presetList[2]

\* C21: in every reachable state the user Pattern has at least one frame and
\* at most PATTERN_FRAME_MAX frames, and its frame count is the number of
\* frame slots that were written, whatever presets, definitions (taken or
\* turned down) and expiries came before.
C21_FrameCountInRange ==
  /\ currentUserPattern.num_frames >= 1
  /\ currentUserPattern.num_frames <= PATTERN_FRAME_MAX
  /\ Len(currentUserPattern.frames) = currentUserPattern.num_frames

\* The definition of exactly PATTERN_FRAME_MAX frames was installed.
C21_Witness ==
  /\ call = <<"mqttCallback", "definition", DefFull>>
  /\ LogHas("install")
  /\ currentUserPattern.num_frames = PATTERN_FRAME_MAX

\* The time from `since` to t on a counter that has overflowed at most once
\* in between.
TrueElapsed(t, since) == IF t >= since THEN t - since ELSE t + ClockMod - since

\* C22: a steady tick advances a finite frame exactly when the time since
\* last_frame_at is above the frame's duration and expires a finite Pattern
\* exactly when the time since pattern_start_at is above the Pattern's
\* duration, also when the millisecond counter has overflowed since the
\* timestamp (now < timestamp): the player does not wait for the counter to
\* come round again.
C22_WraparoundSafe ==
  [][SteadyTick =>
       /\ CurrentFrame.delay_ms # ULONG_MAX
          => ((log' # <<>> /\ log'[1][1] = "advance")
              <=> TrueElapsed(now, CurrentState.last_frame_at) > CurrentFrame.delay_ms)
       /\ CurrentPattern.delay_ms # ULONG_MAX
          => (Logs("expire")
              <=> TrueElapsed(now, CurrentState.pattern_start_at) > CurrentPattern.delay_ms)]_vars

\* The README's Pattern (frames of 200 ms, 1500 ms, then "off") advanced and
\* expired on a tick after the counter overflowed: the tick's time is below
\* the time the Pattern had run.
C22_Witness ==
  /\ call = <<"loopDisplay">>
  /\ log # <<>>
  /\ log[1][1] = "advance" /\ log[1][4] = now /\ log[1][5] + 200 > now
  /\ \E i \in DOMAIN log :
       /\ log[i][1] = "expire" /\ log[i][3] = PRESET_OFF
       /\ log[i][4] = now /\ log[i][5] + 1500 > now

\* C23: Frame 0 of every installed user Pattern is a lamp output before the
\* Pattern is replaced and before a later frame of it is shown, whatever
\* program is current at the install: no step installs a user Pattern, and
\* none advances the USER player, while Frame 0 of the Pattern in place has
\* not been on the lamps since its install.
C23_FirstFrameObserved ==
  [][call'[1] # "clock" =>
       /\ Logs("install") => ~pending
       /\ \A i \in DOMAIN log' :
            (log'[i][1] = "advance" /\ log'[i][2] = PROGRAM_USER) => ~pending]_vars

\* The last event of kind k before position i of trace lg, 0 if there is none.
LastBefore(lg, i, k) ==
  LET js == {j \in 1 .. (i - 1) : lg[j][1] = k}
  IN IF js = {} THEN 0 ELSE CHOOSE j \in js : \A l \in js : l <= j

\* The current program when event i of the step's trace was logged.
ProgramAt(i) ==
  IF LastBefore(log', i, "program") = 0 THEN currentProgram
  ELSE log'[LastBefore(log', i, "program")][2]

\* The Pattern of program p when event i of the step's trace was logged.
PatternAt(i, p) ==
  IF p # PROGRAM_USER THEN programPatterns[p + 1]
  ELSE IF LastBefore(log', i, "install") = 0 THEN currentUserPattern
  ELSE log'[LastBefore(log', i, "install")][2]

\* C24: a steady tick leaves the player state of every program but the
\* current one as it was; every init, advance and expiry of a step is of the
\* program that is current at that point of the step, and every lamp output
\* is the frame that program's player has just moved to.
C24_OnlyCurrentProgramPlays ==
  [][call'[1] # "clock" =>
       /\ SteadyTick => \A p \in Programs \ {currentProgram} : state'[p] = state[p]
       /\ \A i \in DOMAIN log' :
            log'[i][1] \in {"init", "advance", "expire"} => log'[i][2] = ProgramAt(i)
       /\ \A i \in DOMAIN log' :
            log'[i][1] = "lights"
            => /\ i > 1
               /\ log'[i - 1][1] \in {"init", "advance"}
               /\ log'[i][2] =
                    Lamps(PatternAt(i, ProgramAt(i)).frames[
                            IF log'[i - 1][1] = "init" THEN 1 ELSE log'[i - 1][3] + 1])]_vars

\* A tick advanced the MQTT_ERROR animation while the MQTT_CONNECTING player,
\* not current, stayed on a frame whose duration had passed.
C24_Witness ==
  /\ call = <<"loopDisplay">>
  /\ currentProgram = PROGRAM_MQTT_ERROR
  /\ log # <<>> /\ log[1][1] = "advance" /\ log[1][2] = PROGRAM_MQTT_ERROR
  /\ state[PROGRAM_MQTT_CONNECTING].current_frame = 0
  /\ state[PROGRAM_MQTT_CONNECTING].last_frame_at > 0
  /\ Elapsed(now, state[PROGRAM_MQTT_CONNECTING].last_frame_at) > 500

\* The ids of the "program" events of trace lg, in order.
ProgramsOf(lg) ==
  LET sel == SelectSeq(lg, LAMBDA e : e[1] = "program")
  IN [i \in DOMAIN sel |-> sel[i][2]]

\* C25: every connection attempt is made with MQTT_CONNECTING current and
\* switches next to USER if it succeeds and to MQTT_ERROR if it fails; the
\* configuration portal's callback makes WIFI_HOTSPOT current; a failed Wi-Fi
\* connect ends with WIFI_ERROR current; setup with Wi-Fi up goes from OFF to
\* WIFI_CONNECTING, and the first attempt, if it succeeds, on to
\* MQTT_CONNECTING and USER with the default user Pattern and the lamps off.
C25_StatusProgramFollowsEvent ==
  [][call'[1] # "clock" =>
       /\ \A c \in DOMAIN log' :
            log'[c][1] = "connect"
            => /\ ProgramAt(c) = PROGRAM_MQTT_CONNECTING
               /\ c < Len(log')
               /\ log'[c + 1] = <<"program", IF log'[c][4] THEN PROGRAM_USER
                                             ELSE PROGRAM_MQTT_ERROR>>
               /\ currentProgram' = log'[c + 1][2]
       /\ \A connectStatus \in BOOLEAN :
            (call' = <<"buttonLongPress", TRUE, connectStatus>>
             \/ call' = <<"setup", TRUE, connectStatus>>)
            => IF connectStatus THEN currentProgram' = PROGRAM_WIFI_HOTSPOT
               ELSE /\ log'[Len(log')] = <<IF connected THEN "publish" ELSE "dropped",
                                           "program", "wifi-error">>
                    /\ ProgramAt(Len(log')) = PROGRAM_WIFI_ERROR
                    /\ \E i \in DOMAIN log' :
                         /\ log'[i] = <<"program", PROGRAM_WIFI_ERROR>>
                         /\ ProgramAt(i) = PROGRAM_WIFI_HOTSPOT
       /\ \A portal \in BOOLEAN :
            (call' = <<"buttonLongPress", portal, FALSE>>
             \/ call' = <<"setup", portal, FALSE>>)
            => currentProgram' = PROGRAM_WIFI_ERROR /\ ~wifiFeaturesEnabled'
       /\ call' = <<"setup", FALSE, TRUE>>
          => /\ currentProgram = PROGRAM_OFF
             /\ ProgramsOf(log') = <<PROGRAM_WIFI_CONNECTING>>
             /\ currentProgram' = PROGRAM_WIFI_CONNECTING
       /\ (/\ call' = <<"mqttReconnect", TRUE>>
           /\ currentProgram = PROGRAM_WIFI_CONNECTING
           /\ Logs("connect"))
          => /\ ProgramsOf(log') = <<PROGRAM_MQTT_CONNECTING, PROGRAM_USER>>
             /\ currentProgram' = PROGRAM_USER
             /\ currentUserPattern' = presetList[PRESET_OFF + 1]
             /\ lights' = LampsOff]_vars

\* Startup ended: after the wifi-connecting animation had advanced, the
\* first connection attempt succeeded and left USER current on the default
\* Pattern with the lamps off.
C25_Witness ==
  /\ call = <<"mqttReconnect", TRUE>>
  /\ ProgramsOf(log) = <<PROGRAM_MQTT_CONNECTING, PROGRAM_USER>>
  /\ currentProgram = PROGRAM_USER
  /\ currentUserPattern = presetList[PRESET_OFF + 1]
  /\ lights = LampsOff
  /\ played[PROGRAM_WIFI_CONNECTING] > 0
  /\ state[PROGRAM_WIFI_HOTSPOT] = stack_state(0, 0, 0)

\* The connection attempts in the trace of the step.
Attempts == {i \in DOMAIN log' : log'[i][1] = "connect"}

\* C26: while Wi-Fi features are enabled and the broker connection is down,
\* every pass of loop() ticks the player before it comes to mqttReconnect,
\* mqttReconnect makes at most one connection attempt and hands control back
\* to the loop, no other step of the loop makes an attempt, and a tick under
\* MQTT_ERROR that finds the frame's 200 ms exceeded advances the animation.
C26_ReconnectKeepsLoopTurning ==
  [][/\ call'[1] = "mqttReconnect"
        => /\ call[1] \in {"wifiIdle", "saveConfigCallback"}
           /\ Cardinality(Attempts) <= 1
           /\ pc = "mqtt" /\ pc' = "button"
     /\ call'[1] \in {"wifiIdle", "saveConfigCallback"} => call = <<"loopDisplay">>
     /\ (call'[1] \notin {"clock", "mqttReconnect"}) => Attempts = {}
     /\ (/\ SteadyTick
         /\ wifiFeaturesEnabled /\ ~connected
         /\ currentProgram = PROGRAM_MQTT_ERROR
         /\ Elapsed(now, CurrentState.last_frame_at) > 200)
        => /\ log' # <<>>
           /\ log'[1][1] = "advance"
           /\ state'[PROGRAM_MQTT_ERROR].current_frame =
                1 - state[PROGRAM_MQTT_ERROR].current_frame]_vars

\* Between two attempts (the last one failed less than MQTT_RECONNECT_DELAY
\* ago) a tick advanced the MQTT_ERROR animation.
C26_Witness ==
  /\ call = <<"loopDisplay">>
  /\ wifiFeaturesEnabled /\ ~connected
  /\ currentProgram = PROGRAM_MQTT_ERROR
  /\ log # <<>> /\ log[1][1] = "advance"
  /\ lastReconnectAttempt > 0
  /\ Elapsed(now, lastReconnectAttempt) <= MQTT_RECONNECT_DELAY

\* C27: the identify command publishes the identity announcement "online"
\* and nothing else, and leaves the current program, the user Pattern, every
\* player state and the lamps as they were.
C27_IdentifyOnlyAnnounces ==
  [][call' = <<"mqttCallback", "identify", "">>
     => /\ UNCHANGED <<currentProgram, currentUserPattern, state, lights, played>>
        /\ log' = << <<"publish", "identity", "online">> >>]_vars

\* identify was answered while a Pattern of more than one frame was playing
\* under USER, past its first frame.
C27_Witness ==
  /\ call = <<"mqttCallback", "identify", "">>
  /\ log = << <<"publish", "identity", "online">> >>
  /\ currentProgram = PROGRAM_USER
  /\ state[PROGRAM_USER].current_frame > 0

\* The identity announcements (sent or dropped) in the trace of the step.
Announcements == {j \in DOMAIN log' : IsCall(log'[j], "identity")}

\* C28: every connection attempt registers "offline" as the last will on the
\* identity topic; one that succeeds is followed in the same call by exactly
\* one publish of "online" on that topic, which is sent, and one that fails
\* by none; the connection comes up in no other way, and a command is handed
\* to mqttCallback only in a later step, on a connection that is up.
C28_ConnectAnnouncesIdentity ==
  [][call'[1] # "clock" =>
       /\ \A c \in Attempts :
            /\ log'[c][2] = "identity" /\ log'[c][3] = "offline"
            /\ call'[1] # "mqttCallback"
            /\ IF log'[c][4]
               THEN /\ connected'
                    /\ Cardinality(Announcements) = 1
                    /\ \A j \in Announcements :
                         j > c /\ log'[j] = <<"publish", "identity", "online">>
               ELSE Announcements = {}
       /\ (~connected /\ connected') => \E c \in Attempts : log'[c][4]
       /\ call'[1] = "mqttCallback" => connected]_vars

\* The connection was lost and made again: the second connection announced
\* the identity too, with the green preset still the user Pattern.
C28_Witness ==
  /\ call = <<"mqttReconnect", TRUE>>
  /\ connected
  /\ log # <<>>
  /\ log[Len(log)] = <<"publish", "identity", "online">>
  /\ \E c \in DOMAIN log : log[c] = <<"connect", "identity", "offline", TRUE>>
  /\ currentUserPattern = presetList[2]

\* The value the lookup of the last step returned.
Returned == log[1][2]

\* C29: for every id of the registry the lookup of the name bound to it
\* returns that id; for every name of the registry the name bound to the id
\* the lookup returns is that name; and no two ids are bound to one name.
C29_RegistryRoundTrip ==
  /\ call[1] = "getPresetId(presetNames)" => Returned = call[2]
  /\ (call[1] = "presetNames(getPresetId)" /\ call[2] \in RegistryNames)
     => Returned = call[2]
  /\ (call[1] = "strcmp" /\ call[2] # call[3]) => Returned = FALSE
  /\ (call[1] = "getPresetId" /\ call[2] \in RegistryNames)
     => Returned \in 0 .. (PRESET_COUNT - 1)
  /\ Cardinality(RegistryNames) = PRESET_COUNT

\* The name of the registry's last id was looked up and gave that id.
C29_Witness ==
  /\ call = <<"getPresetId(presetNames)", PRESET_COUNT - 1>>
  /\ Returned = PRESET_COUNT - 1

\* C30: a tick of the USER player that finds its Pattern's duration exceeded
\* and a successor that is no id of the registry installs the off preset as
\* the user Pattern: one frame with all lamps off, indefinite, the lamps off
\* and the USER player on index 0 with both timestamps now.
C30_InvalidSuccessorFallsBackToOff ==
  [][\A pattern \in PlayerPatterns :
       (/\ call'[1] = "runPattern"
        /\ call'[2] = pattern
        /\ pattern.delay_ms # ULONG_MAX
        /\ Elapsed(now, state[PROGRAM_USER].pattern_start_at) > pattern.delay_ms
        /\ ~isValidPresetId(pattern.next_preset))
       => /\ currentUserPattern' = presetList[PRESET_OFF + 1]
          /\ currentUserPattern' =
               [frames |-> <<pattern_frame(FALSE, FALSE, FALSE, ULONG_MAX)>>,
                num_frames |-> 1, delay_ms |-> ULONG_MAX, next_preset |-> 0]
          /\ currentProgram' = PROGRAM_USER
          /\ state'[PROGRAM_USER] = stack_state(0, now, now)
          /\ lights' = LampsOff
          /\ \E i \in DOMAIN log' :
               /\ log'[i][1] = "expire"
               /\ log'[i][3] = pattern.next_preset
               /\ i < Len(log')
               /\ log'[i + 1] = <<"install", presetList[PRESET_OFF + 1]>>]_vars

\* A Pattern with the lamps on and successor 255 expired and the off preset
\* took its place.
C30_Witness ==
  /\ call[1] = "runPattern"
  /\ call[2].next_preset = 255
  /\ call[2].frames[1].red_state
  /\ \E i \in DOMAIN log : log[i][1] = "expire" /\ log[i][3] = 255
  /\ currentUserPattern = presetList[PRESET_OFF + 1]
  /\ lights = LampsOff

\* C31 as claimed: every connection attempt but the first comes more than
\* MQTT_RECONNECT_DELAY after the attempt before it, whether that one failed
\* or succeeded, and is made only when now - lastReconnectAttempt is above
\* MQTT_RECONNECT_DELAY.
C31_AttemptsSpaced ==
  [][(call'[1] # "clock" /\ Attempts # {})
     => /\ Elapsed(now, lastReconnectAttempt) > MQTT_RECONNECT_DELAY
        /\ attemptedAt # -1 => Elapsed(now, attemptedAt) > MQTT_RECONNECT_DELAY]_vars

\* C31: an attempt is made on a loop pass only when now -
\* lastReconnectAttempt is above MQTT_RECONNECT_DELAY.  A failed attempt
\* leaves lastReconnectAttempt at its time, so the attempt after a failed one
\* comes more than MQTT_RECONNECT_DELAY later unless the settings were saved
\* in between; a successful attempt and a save of the settings set
\* lastReconnectAttempt to 0, and the next attempt is then made on the first
\* pass with now above MQTT_RECONNECT_DELAY, however short the time since
\* the attempt before.
C31_AttemptsSpacedAfterFailure ==
  [][call'[1] # "clock" =>
       /\ Attempts # {}
          => /\ call'[1] = "mqttReconnect"
             /\ Elapsed(now, lastReconnectAttempt) > MQTT_RECONNECT_DELAY
             /\ lastReconnectAttempt # 0
                => /\ attemptedAt = lastReconnectAttempt
                   /\ Elapsed(now, attemptedAt) > MQTT_RECONNECT_DELAY
             /\ attemptedAt' = now
             /\ lastReconnectAttempt' = IF connected' THEN 0 ELSE now
       /\ (/\ call'[1] = "mqttReconnect"
           /\ Elapsed(now, lastReconnectAttempt) <= MQTT_RECONNECT_DELAY)
          => /\ Attempts = {}
             /\ UNCHANGED <<lastReconnectAttempt, attemptedAt, currentProgram, connected>>
       /\ (/\ call'[1] = "mqttReconnect"
           /\ Elapsed(now, lastReconnectAttempt) > MQTT_RECONNECT_DELAY)
          => Attempts # {}
       /\ call'[1] = "saveConfigCallback" => lastReconnectAttempt' = 0
       /\ lastReconnectAttempt' \in {0, attemptedAt'}]_vars

\* An attempt failed, and the next one was made more than
\* MQTT_RECONNECT_DELAY after it, with MQTT_ERROR on the lamps in between.
C31_Witness ==
  /\ call[1] = "mqttReconnect"
  /\ attemptedAt = now
  /\ \E c \in DOMAIN log : log[c][1] = "connect"
  /\ played[PROGRAM_MQTT_ERROR] > 0
  /\ Elapsed(now, state[PROGRAM_MQTT_ERROR].pattern_start_at) > MQTT_RECONNECT_DELAY

\* C32: in every state after setup the index of the current program's player
\* is below the frame count of the current program's Pattern and the lamps
\* are the frame at that index of that Pattern.
C32_LampsShowCurrentFrame ==
  pc # "setup" =>
    /\ CurrentState.current_frame < CurrentPattern.num_frames
    /\ lights = Lamps(CurrentFrame)

\* A preset of other lamps was installed while the configuration portal's
\* program was current: the lamps are on Frame 0 of WIFI_HOTSPOT, not on a
\* frame of the user Pattern.
C32_Witness ==
  /\ pc # "setup"
  /\ call[1] = "mqttCallback"
  /\ LogHas("install")
  /\ currentProgram = PROGRAM_WIFI_HOTSPOT
  /\ lights = Lamps(programPatterns[PROGRAM_WIFI_HOTSPOT + 1].frames[1])
  /\ lights # Lamps(currentUserPattern.frames[1])

\* C33: no step of setDefinition stores a frame at a slot of index
\* PATTERN_FRAME_MAX or above of the local Pattern's frame array.
C33_NoStorePastFrameArray ==
  \A i \in DOMAIN log : log[i][1] # "oob"

\* The positions of the events of kind k in the trace of the last handler.
EventsOf(k) == {i \in DOMAIN log : log[i][1] = k}

\* C34: every install is followed at once by the init of the current
\* program's player, its lamp output and nothing more of the player; a
\* handler expires at most one Pattern, and after the expiry come the
\* install of the successor, its init and no further advance or expiry: the
\* player is entered at most twice, whatever the durations.
C34_InstallEndsAfterInit ==
  /\ \A i \in EventsOf("install") :
       /\ i + 2 <= Len(log)
       /\ log[i + 1][1] = "init"
       /\ log[i + 2][1] = "lights"
       /\ \A j \in (i + 1) .. Len(log) :
            log[j][1] \notin {"advance", "expire", "install"}
       /\ EventsOf("init") \cap ((i + 2) .. Len(log)) = {}
  /\ Cardinality(EventsOf("expire")) <= 1
  /\ \A i \in EventsOf("expire") :
       /\ i < Len(log)
       /\ log[i + 1][1] = "install"
       /\ EventsOf("init") \cap (1 .. i) = {}
       /\ Cardinality(EventsOf("advance") \cap (1 .. i)) <= 1

\* The definition whose frame durations and own duration are all 0 advanced
\* and expired on the first tick a millisecond after its install.
C34_Witness ==
  /\ call = <<"loopDisplay">>
  /\ log # <<>>
  /\ log[1][1] = "advance" /\ log[1][5] = 1
  /\ \E i \in EventsOf("expire") : log[i][3] = PRESET_OFF /\ log[i][5] = 1
  /\ currentUserPattern = presetList[PRESET_OFF + 1]

\* C35: every preset of the registry has indefinite duration; a handler
\* expires a Pattern only when the user Pattern before it had a finite
\* duration, and the Pattern the expiry installs is a preset of indefinite
\* duration; and the user Pattern only comes to have a finite duration by a
\* definition command that carries one.  So after an expiry no tick expires
\* anything until such a definition is installed.
C35_PresetsNeverExpire ==
  [][call'[1] # "clock" =>
       /\ Logs("expire") =>
            /\ currentUserPattern.delay_ms # ULONG_MAX
            /\ \E id \in 0 .. PRESET_COUNT - 1 :
                 currentUserPattern' = presetList[id + 1]
            /\ currentUserPattern'.delay_ms = ULONG_MAX
       /\ currentUserPattern.delay_ms = ULONG_MAX => ~Logs("expire")
       /\ (currentUserPattern'.delay_ms # ULONG_MAX
           /\ currentUserPattern' # currentUserPattern) =>
            \E doc \in Definitions :
              /\ DefinitionCommand(doc)
              /\ ~IndefiniteDelay(doc)
              /\ Logs("install")]_vars

\* The blinking-red definition has expired into the off preset, which has
\* no duration of its own.
C35_Witness ==
  /\ call = <<"loopDisplay">>
  /\ currentProgram = PROGRAM_USER
  /\ \E i \in EventsOf("expire") :
       /\ log[i][3] = PRESET_OFF
       /\ log[i + 1] = <<"install", presetList[PRESET_OFF + 1]>>
  /\ currentUserPattern = presetList[PRESET_OFF + 1]
  /\ currentUserPattern.delay_ms = ULONG_MAX
  /\ state[PROGRAM_USER].pattern_start_at = now

\* The event a notification leaves in the trace: sent when connected.
Notified(topic, payload) ==
  <<IF connected THEN "publish" ELSE "dropped", topic, payload>>

\* C36: a tick under the user program that finds both the current frame's
\* and the Pattern's duration elapsed first advances the frame of the old
\* Pattern and emits it (lamp output, state notification), then expires the
\* Pattern, installs the successor preset and emits its Frame 0 (lamp
\* output, state notification); it leaves the player at index 0 of the
\* successor with both timestamps equal to the tick's now.
C36_AdvanceThenSuccessor ==
  [][(/\ SteadyTick
      /\ currentProgram = PROGRAM_USER
      /\ frameElapsed(currentUserPattern, state[PROGRAM_USER], now)
      /\ patternElapsed(currentUserPattern, state[PROGRAM_USER], now))
     => LET old == currentUserPattern
            incremented == state[PROGRAM_USER].current_frame + 1
            next == IF incremented >= old.num_frames THEN 0 ELSE incremented
            successor == presetList[(IF isValidPresetId(old.next_preset)
                                     THEN old.next_preset ELSE PRESET_OFF) + 1]
        IN /\ Len(log') = 9
           /\ log'[1][1] = "advance" /\ log'[1][2] = PROGRAM_USER
           /\ log'[1][3] = next /\ log'[1][4] = now
           /\ log'[2] = <<"lights", Lamps(old.frames[next + 1])>>
           /\ log'[3] = Notified("state", Lamps(old.frames[next + 1]))
           /\ log'[4][1] = "expire" /\ log'[4][4] = now
           /\ log'[5] = <<"install", successor>>
           /\ log'[6] = <<"init", PROGRAM_USER, now>>
           /\ log'[7] = <<"lights", Lamps(successor.frames[1])>>
           /\ log'[8] = Notified("state", Lamps(successor.frames[1]))
           /\ log'[9][2] = "pattern"
           /\ currentUserPattern' = successor
           /\ lights' = Lamps(successor.frames[1])
           /\ state'[PROGRAM_USER] = stack_state(0, now, now)
           /\ now' = now]_vars

\* A tick has shown the second frame of the all-zero definition (red and
\* green) and then the off preset that follows it.
C36_Witness ==
  /\ call = <<"loopDisplay">>
  /\ currentProgram = PROGRAM_USER
  /\ Len(log) = 9
  /\ log[1][1] = "advance" /\ log[1][3] = 1
  /\ log[2][1] = "lights" /\ log[4][1] = "expire"
  /\ log[7] = <<"lights", Lamps(presetList[PRESET_OFF + 1].frames[1])>>
  /\ log[2] # log[7]
  /\ currentUserPattern = presetList[PRESET_OFF + 1]
  /\ state[PROGRAM_USER] = stack_state(0, now, now)

\* C37: a handler expires a Pattern only when the user program is current
\* before it, and only the user program's Pattern; while a status program
\* is current the user player's state is left alone; and every step that
\* goes from a status program to the user program leaves the user player at
\* index 0 with both timestamps equal to now, on Frame 0 of the user
\* Pattern, without an expiry: the Pattern's duration counts from the return.
C37_StatusTimeNotCounted ==
  [][call'[1] # "clock" =>
       /\ Logs("expire") =>
            /\ currentProgram = PROGRAM_USER
            /\ \A i \in DOMAIN log' :
                 log'[i][1] = "expire" => log'[i][2] = PROGRAM_USER
       /\ (currentProgram # PROGRAM_USER /\ currentProgram' # PROGRAM_USER) =>
            state'[PROGRAM_USER] = state[PROGRAM_USER]
       /\ (currentProgram # PROGRAM_USER /\ currentProgram' = PROGRAM_USER) =>
            /\ state'[PROGRAM_USER] = stack_state(0, now', now')
            /\ lights' = Lamps(currentUserPattern'.frames[1])
            /\ ~patternElapsed(currentUserPattern', state'[PROGRAM_USER], now')
            /\ ~Logs("expire")]_vars

\* A reconnect has brought the user program back after the error program
\* ran for longer than the finite duration of the user Pattern, whose
\* player starts again at now.
C37_Witness ==
  /\ call = <<"mqttReconnect", TRUE>>
  /\ currentProgram = PROGRAM_USER
  /\ currentUserPattern.delay_ms # ULONG_MAX
  /\ currentUserPattern.delay_ms > 0
  /\ state[PROGRAM_USER] = stack_state(0, now, now)
  /\ Elapsed(now, state[PROGRAM_MQTT_ERROR].pattern_start_at)
       > currentUserPattern.delay_ms

\* The lamp outputs of the frames of pattern p.
FrameLamps(p) == {Lamps(p.frames[i]) : i \in 1 .. p.num_frames}

\* The user program plays a Pattern of finite duration.
PlaysTimed ==
  /\ currentProgram = PROGRAM_USER
  /\ currentUserPattern.delay_ms # ULONG_MAX

\* The duration of the user Pattern leaves room for a tick before the clock
\* is back where it was at the Pattern's start.
ExpiresInTime == currentUserPattern.delay_ms + MaxTickGap < ClockMod

\* A timed user Pattern is replaced only by a command or by the expiry that
\* installs its successor preset and shows that preset's Frame 0.
ReplacedBySuccessor ==
  [][(PlaysTimed /\ currentUserPattern' # currentUserPattern
      /\ call'[1] # "mqttCallback")
     => /\ Logs("expire")
        /\ currentUserPattern' = presetList[currentUserPattern.next_preset + 1]
        /\ currentProgram' = PROGRAM_USER
        /\ lights' = Lamps(currentUserPattern'.frames[1])]_vars

\* A preset under the user program stays, with one of its frames on the
\* lamps, until a command comes.
SuccessorStays ==
  [][(/\ currentProgram = PROGRAM_USER
      /\ \E id \in 0 .. PRESET_COUNT - 1 : currentUserPattern = presetList[id + 1]
      /\ call'[1] # "mqttCallback")
     => /\ currentProgram' = PROGRAM_USER
        /\ currentUserPattern' = currentUserPattern
        /\ lights' \in FrameLamps(currentUserPattern)]_vars

\* C38 as stated: while the user program stays current, loop() keeps being
\* called and the clock keeps advancing, a user Pattern of any finite
\* duration does not stay for ever: it is replaced, and unless a command
\* does so, by its successor preset, whose frames the lamps show from then
\* on.
C38_TimedPatternGivesWay ==
  /\ [](PlaysTimed => <>~PlaysTimed)
  /\ ReplacedBySuccessor
  /\ SuccessorStays

\* C38, amended: the same for a Pattern whose duration D leaves room for a
\* tick before the clock is back where it was at the Pattern's start: D
\* plus the longest time between two ticks is below 2^ClockBits.
C38_TimedPatternGivesWayInTime ==
  /\ []((PlaysTimed /\ ExpiresInTime) => <>~(PlaysTimed /\ ExpiresInTime))
  /\ ReplacedBySuccessor
  /\ SuccessorStays

\* The blinking-red definition has expired into the off preset on the tick
\* that came MaxTickGap after its install.
C38_Witness ==
  /\ call = <<"loopDisplay">>
  /\ currentProgram = PROGRAM_USER
  /\ \E i \in EventsOf("expire") :
       log[i][3] = PRESET_OFF /\ log[i][5] = MaxTickGap - 1500
  /\ currentUserPattern = presetList[PRESET_OFF + 1]
  /\ lights \in FrameLamps(currentUserPattern)

=============================================================================
